---- MODULE Spec2Model ----
(***************************************************************************)
(* codium-devcontainer: the in-container supervisor (entrypoint.sh) and    *)
(* the host-side session reconciler (ensureContainerReadyAndGetPort of     *)
(* devcontainerCore, src/unnamed/part_002).                                *)
(*                                                                         *)
(* SupervisorSpec runs the entrypoint's polling loop against an            *)
(* environment that opens and closes SSH connections, writes the stop      *)
(* file, kills sshd and signals the supervisor.                            *)
(* ReconcilerSpec runs ensureContainerReadyAndGetPort, one engine command  *)
(* per step, against a container engine holding the session's container.   *)
(* BuildSpec, SshBootstrapSpec, SlugSpec and FaultyEngineSpec run the      *)
(* build pipeline, openWorkspaceOverSsh, makeWorkspaceSlug and the         *)
(* reconciler under engine faults. ConcurrentSpec runs two command         *)
(* triggers at once, PostStartSpec the callers of                          *)
(* runPostStartCommandOnce, SshUserSpec the SSH user of each command,      *)
(* SshConfigSpec ensureSshConfigHostAlias on ~/.ssh/config, FreePortSpec   *)
(* findFreePort and DockerfileSpec createTemporaryDockerfile.              *)
(* SessionsSpec starts the container repeatedly on one workspace, and      *)
(* SshAccessSpec runs getEffectiveUser and setupSshAccess on a container.  *)
(***************************************************************************)
EXTENDS Integers, Sequences, FiniteSets, TLC

\* ------------------------------------------------------------------ bounds
\* Poll cycles one supervisor run may execute.
MaxPolls == 31
\* Host-clock values (milliseconds) the engine and the file system can show.
MaxTime == 3
\* Ephemeral ports the kernel can hand out are 1..MaxPort.
MaxPort == 2
\* Characters in a workspace path.
MaxPathLen == 4

\* ------------------------------------------------------- program constants
DefaultCheckInterval == 2
DefaultIdleGrace == 60
FallbackPort == 2222
\* The container side of the published SSH port.
SshPort == 22

\* (CHECK_INTERVAL, IDLE_GRACE_SECONDS) pairs the container can be started
\* with: the defaults, scenario D, a grace that is no multiple of the
\* interval, and a short one.
Settings ==
  { <<DefaultCheckInterval, DefaultIdleGrace>>, <<2, 10>>, <<3, 10>>, <<1, 2>> }

VARIABLES
  \* ---- supervisor (entrypoint.sh)
  supPc,              \* "start" | "launched" | "poll" | "sleep" | "exited"
  CHECK_INTERVAL,
  IDLE_GRACE_SECONDS,
  idle_elapsed,
  stopFile,           \* $STOP_FILE exists
  sshdAlive,          \* kill -0 $SSHD_PID succeeds
  estab,              \* the connection table shows an ESTAB row on :22
  sigPending,         \* a TERM/INT was delivered and the trap has not run yet
  exitCode,           \* -1 while running
  termCause,          \* "none" | "stop" | "idle" | "signal" | "sshd" | "killed"
  lastProbe,          \* what the last poll's probe did: "none" | "skipped" | "estab" | "idle"
  polls,              \* poll cycles begun
  idleRun,            \* consecutive polls, up to now, whose probe saw no connection
  everActive,         \* some probe saw a connection
  stopSleeps,         \* sleeps that ended with the stop file already there
                      \* and the supervisor still supervising afterwards
  idleBefore,         \* idle_elapsed as the last poll cycle found it
  \* ---- container engine and host file system
  cState,             \* the session's container: "absent" | "stopped" | "running"
  cPort,              \* host port published for 22/tcp, or Undefined
  cCreated,           \* .Created of the container (ms), or Undefined
  now,                \* host clock (ms)
  dcMtime,            \* mtimeMs of .devcontainer/devcontainer.json
  \* ---- one call of ensureContainerReadyAndGetPort
  pc,                 \* position in the call, "idle" between calls
  forceRebuild,
  shouldRebuild,
  port,
  outcome,            \* "none" | "ok" | "cancelled" | "error"
  retPort,            \* port of the returned object
  retName,            \* containerName of the returned object
  log,                \* commands issued and decision points surfaced in this call
  choice,             \* answer to "Rebuild" / "Reuse", "none" if not asked
  choice2,            \* answer to "Kill & Rebuild" / "Reuse", "none" if not asked
  pre,                \* engine state as the call found it
  upAfterStart,       \* line 423 left the container running
  lastRet             \* port the previous call returned, engine untouched since

supVars ==
  << supPc, CHECK_INTERVAL, IDLE_GRACE_SECONDS, idle_elapsed, stopFile,
     sshdAlive, estab, sigPending, exitCode, termCause, lastProbe, polls,
     idleRun, everActive, stopSleeps, idleBefore >>

recVars ==
  << cState, cPort, cCreated, now, dcMtime, pc, forceRebuild, shouldRebuild,
     port, outcome, retPort, retName, log, choice, choice2, pre,
     upAfterStart, lastRet >>

VARIABLES
  \* ---- the project's .devcontainer directory
  epFile,             \* entrypoint.sh: "absent" | "user" | "userMarked" | "template"
  tmpExists,          \* Dockerfile.codium-temp exists
  \* ---- one call of buildImageWithEntrypoint
  bPc,                \* position in the call, "idle" between calls
  bStaged,            \* this call wrote entrypoint.sh (line 307)
  tempDockerfile,     \* createTemporaryDockerfile returned its path
  buildOk,            \* docker build exited 0
  bOutcome,           \* "none" | "ok" | "error" | "killed"
  bPre                \* the directory as the call found it

bldVars ==
  << epFile, tmpExists, bPc, bStaged, tempDockerfile, buildOk, bOutcome, bPre >>

VARIABLES
  \* ---- the editor
  hasSshRemote,       \* an SSH remote extension is installed
  \* ---- one call of openWorkspaceOverSsh
  sPc,                \* position in the call, "idle" between calls
  pubKeyPath,         \* "unset" | "found" | "undefined"
  sshResult,          \* the ssh check: "none" | "ok" | "badconfig" | "denied" | "spawnerr"
  ok,                 \* what setupSshAccess returned: "unset" | "true" | "false"
  warning,            \* warning of verifySshLogin: "none" | "config" | "login"
  extChoice,          \* answer to "Install" / "Cancel", "none" if not asked
  manualTerminal,     \* "Devcontainer SSH (manual)" was opened
  folderOpened,       \* vscode.openFolder was executed on the remote URI
  sOutcome,           \* "none" | "returned" | "error"
  thrownBy            \* the callee whose exception ended the call, or "none"

sshVars ==
  << hasSshRemote, sPc, pubKeyPath, sshResult, ok, warning, extChoice,
     manualTerminal, folderOpened, sOutcome, thrownBy >>

VARIABLES
  \* ---- one call of makeWorkspaceSlug
  wsFsPath,           \* the argument, a sequence of characters
  slugPc,             \* "call" | "done"
  slugRet             \* the returned string

slugVars == << wsFsPath, slugPc, slugRet >>

VARIABLES
  \* ---- engine faults
  faultHit            \* the first query of this call of
                      \* ensureContainerReadyAndGetPort that met a fatal
                      \* engine error, or "none"

fltVars == << faultHit >>

VARIABLES
  \* ---- concurrent command triggers
  inv                 \* per invocation of ensureContainerReadyAndGetPort:
                      \* its position (pc), forceRebuild (force), its
                      \* locals shouldRebuild (should) and port, and
                      \* whether it has issued a state-changing engine
                      \* command (acted)

conVars == << inv >>

VARIABLES
  \* ---- postStartCommand in a remote window
  remoteName,         \* vscode.env.remoteName is set: the window is remote
  activated,          \* activate() has run in this window
  postStartCommand,   \* devcontainer.json's postStartCommand: absent, a
                      \* string, or a list of strings
  psGuard,            \* workspaceState["codiumDevcontainer.postStart.run:
                      \* <folder>"] is true
  psPc,               \* per caller of runPostStartCommandOnce (the call of
                      \* activate, the watcher's handlers): its position
  psCmd,              \* per caller: the postStartCommand it has read
  psRuns              \* how many times the commands were sent to a
                      \* terminal in this session

psVars == << remoteName, activated, postStartCommand, psGuard, psPc, psCmd,
     psRuns >>

VARIABLES
  \* ---- the SSH user of a command
  remoteUser,         \* devcontainer.json's remoteUser, "" when not set
  whoami,             \* what docker exec whoami prints in the container,
                      \* "" when it fails
  passwdUser,         \* the first account of the container with uid >= 1000
                      \* other than nobody, "" when there is none
  command,            \* the command under way, or "none"
  uPc,                \* its position
  effectiveUser,      \* the user the command has settled on, "" before
  keyUser,            \* the user whose authorized_keys got the key
  loginUser           \* the user of the SSH login (check and terminal)

usrVars == << remoteUser, whoami, passwdUser, command, uPc, effectiveUser,
     keyUser, loginUser >>

VARIABLES
  \* ---- ~/.ssh/config
  sshConfig,          \* the file's lines, in order
  written,            \* per session alias: the port and user of the last
                      \* ensureSshConfigHostAlias call for it, or NotWritten
  writes              \* how many calls were made

cfgVars == << sshConfig, written, writes >>

VARIABLES
  \* ---- findFreePort
  busyPorts,          \* loopback ports held by other processes
  fpPc,               \* the call's position: "idle", "listening",
                      \* "closing", "resolved"
  fpSocket,           \* the listener's socket: "none", "open", "closed"
  fpAddress,          \* the port the kernel gave the listener, or Undefined
  fpError,            \* the server emitted 'error'
  fpResult,           \* what the promise resolved to, Undefined before
  fpCaller,           \* who called: "ensureContainerReadyAndGetPort" or
                      \* "buildAndRun"; "none" before the first call
  containerPort       \* the loopback port the session's container
                      \* publishes, Undefined when there is no container

fpVars ==
  << busyPorts, fpPc, fpSocket, fpAddress, fpError, fpResult, fpCaller,
     containerPort >>

VARIABLES
  \* ---- the temporary Dockerfile
  templateText,       \* assets/devcontainer/Dockerfile: its lines, and
                      \* whether the text ends with a newline
  postCreateCommand, \* devcontainer.json's postCreateCommand
  dfPc,               \* buildImageWithEntrypoint's position
  dfPost,             \* the postCreateCommand this build was given
  tempFile,           \* .devcontainer/Dockerfile.codium-temp: its text, or
                      \* NoFile
  dfUsed              \* the text docker build -f read in this build

dfVars == << templateText, postCreateCommand, dfPc, dfPost, tempFile, dfUsed >>

\* Successive container starts on one bind-mounted workspace.
VARIABLES
  session,       \* number of the running (or last) start of the container
  fileSession    \* start during which the stop file was written, 0: never

sesVars == << session, fileSession >>

\* getEffectiveUser and setupSshAccess against one container.
VARIABLES
  homeEntry,          \* the first entry under /home of the container, ""
                      \* when there is none
  accPc,              \* position of the call under way
  accRemote,          \* the remoteUser argument of getEffectiveUser, ""
                      \* when it is not passed or not set
  queries,            \* the docker exec queries getEffectiveUser has made
  accUser,            \* what getEffectiveUser returned, "" before
  authorizedKeys,     \* per user: the lines of ~/.ssh/authorized_keys
  appended,           \* per user: calls since the container was created
                      \* that resolved a key and ran the append
  setupCalls          \* calls made so far

accVars == << homeEntry, accPc, accRemote, queries, accUser, authorizedKeys,
     appended, setupCalls >>

vars ==
  << supVars, recVars, bldVars, sshVars, slugVars, fltVars, conVars,
     psVars, usrVars, cfgVars, fpVars, dfVars, sesVars, accVars >>

\* What the steps of one component leave alone.
nonSupVars ==
  << recVars, bldVars, sshVars, slugVars, fltVars, conVars, psVars,
     usrVars, cfgVars, fpVars, dfVars, sesVars, accVars >>
nonRecVars ==
  << supVars, bldVars, sshVars, slugVars, fltVars, conVars, psVars,
     usrVars, cfgVars, fpVars, dfVars, sesVars, accVars >>
nonBldVars ==
  << supVars, recVars, sshVars, slugVars, fltVars, conVars, psVars,
     usrVars, cfgVars, fpVars, dfVars, sesVars, accVars >>
nonSshVars ==
  << supVars, recVars, bldVars, slugVars, fltVars, conVars, psVars,
     usrVars, cfgVars, fpVars, dfVars, sesVars, accVars >>
nonSlugVars ==
  << supVars, recVars, bldVars, sshVars, fltVars, conVars, psVars,
     usrVars, cfgVars, fpVars, dfVars, sesVars, accVars >>
nonEngineVars ==
  << supVars, bldVars, sshVars, slugVars, conVars, psVars, usrVars,
     cfgVars, fpVars, dfVars, sesVars, accVars >>
nonAccVars ==
  << supVars, recVars, bldVars, sshVars, slugVars, fltVars, conVars,
     psVars, usrVars, cfgVars, fpVars, dfVars, sesVars >>
nonSesVars ==
  << supVars, recVars, bldVars, sshVars, slugVars, fltVars, conVars,
     psVars, usrVars, cfgVars, fpVars, dfVars, accVars >>
nonDfVars ==
  << supVars, recVars, bldVars, sshVars, slugVars, fltVars, conVars,
     psVars, usrVars, cfgVars, fpVars, sesVars, accVars >>
nonFpVars ==
  << supVars, recVars, bldVars, sshVars, slugVars, fltVars, conVars,
     psVars, usrVars, cfgVars, dfVars, sesVars, accVars >>
nonCfgVars ==
  << supVars, recVars, bldVars, sshVars, slugVars, fltVars, conVars,
     psVars, usrVars, fpVars, dfVars, sesVars, accVars >>
nonUsrVars ==
  << supVars, recVars, bldVars, sshVars, slugVars, fltVars, conVars,
     psVars, cfgVars, fpVars, dfVars, sesVars, accVars >>
nonPsVars ==
  << supVars, recVars, bldVars, sshVars, slugVars, fltVars, conVars,
     usrVars, cfgVars, fpVars, dfVars, sesVars, accVars >>
nonConVars ==
  << supVars, recVars, bldVars, sshVars, slugVars, fltVars, psVars,
     usrVars, cfgVars, fpVars, dfVars, sesVars, accVars >>

\* ---------------------------------------------------------------- supervisor

\* Variants of PollOutcome, each with one slip in lines 33-46.
\* The probe's result is not acted on: every poll counts as idle.
PollOutcomeProbeIgnored(file, active, idle, ci, grace) ==
  IF file
    THEN [rm |-> TRUE, probe |-> "skipped", idle |-> idle, exit |-> "stop"]
    ELSE [rm |-> FALSE, probe |-> IF active THEN "estab" ELSE "idle",
          idle |-> idle + ci,
          exit |-> IF idle + ci >= grace THEN "idle" ELSE "none"]

\* The stop file is looked at only on polls that see no connection.
PollOutcomeStopWhenIdle(file, active, idle, ci, grace) ==
  IF active
    THEN [rm |-> FALSE, probe |-> "estab", idle |-> 0, exit |-> "none"]
    ELSE IF file
      THEN [rm |-> TRUE, probe |-> "skipped", idle |-> idle, exit |-> "stop"]
      ELSE [rm |-> FALSE, probe |-> "idle", idle |-> idle + ci,
            exit |-> IF idle + ci >= grace THEN "idle" ELSE "none"]

\* A connection stops the accumulation but does not reset it.
PollOutcomeNoReset(file, active, idle, ci, grace) ==
  IF file
    THEN [rm |-> TRUE, probe |-> "skipped", idle |-> idle, exit |-> "stop"]
    ELSE IF active
      THEN [rm |-> FALSE, probe |-> "estab", idle |-> idle, exit |-> "none"]
      ELSE [rm |-> FALSE, probe |-> "idle", idle |-> idle + ci,
            exit |-> IF idle + ci >= grace THEN "idle" ELSE "none"]

\* -gt in place of -ge.
PollOutcomeStrict(file, active, idle, ci, grace) ==
  IF file
    THEN [rm |-> TRUE, probe |-> "skipped", idle |-> idle, exit |-> "stop"]
    ELSE IF active
      THEN [rm |-> FALSE, probe |-> "estab", idle |-> 0, exit |-> "none"]
      ELSE [rm |-> FALSE, probe |-> "idle", idle |-> idle + ci,
            exit |-> IF idle + ci > grace THEN "idle" ELSE "none"]

\* The stop file is acted on and left in place (line 34 missing).
PollOutcomeKeepsFile(file, active, idle, ci, grace) ==
  IF file
    THEN [rm |-> FALSE, probe |-> "skipped", idle |-> idle, exit |-> "stop"]
    ELSE IF active
      THEN [rm |-> FALSE, probe |-> "estab", idle |-> 0, exit |-> "none"]
      ELSE [rm |-> FALSE, probe |-> "idle", idle |-> idle + ci,
            exit |-> IF idle + ci >= grace THEN "idle" ELSE "none"]

\* entrypoint.sh lines 33-46: one pass over the stop-file check, the probe
\* and the idle accounting. exit is the reason cleanup is called, or "none".
PollOutcome(file, active, idle, ci, grace) ==
  IF file
    THEN [rm |-> TRUE, probe |-> "skipped", idle |-> idle, exit |-> "stop"]
    ELSE IF active
      THEN [rm |-> FALSE, probe |-> "estab", idle |-> 0, exit |-> "none"]
      ELSE [rm |-> FALSE, probe |-> "idle", idle |-> idle + ci,
            exit |-> IF idle + ci >= grace THEN "idle" ELSE "none"]

SupInit ==
  /\ supPc = "start"
  /\ \E s \in Settings : CHECK_INTERVAL = s[1] /\ IDLE_GRACE_SECONDS = s[2]
  /\ idle_elapsed = 0
  /\ stopFile \in BOOLEAN
  /\ sshdAlive = FALSE
  /\ estab = FALSE
  /\ sigPending = FALSE
  /\ exitCode = -1
  /\ termCause = "none"
  /\ lastProbe = "none"
  /\ polls = 0
  /\ idleRun = 0
  /\ everActive = FALSE
  /\ stopSleeps = 0
  /\ idleBefore = 0

\* line 6: /usr/sbin/sshd -D &.
SupLaunch ==
  /\ UNCHANGED nonSupVars
  /\ supPc = "start"
  /\ supPc' = "launched"
  /\ sshdAlive' = TRUE
  /\ UNCHANGED << CHECK_INTERVAL, IDLE_GRACE_SECONDS, idle_elapsed, stopFile,
                  estab, sigPending, exitCode, termCause, lastProbe, polls,
                  idleRun, everActive, stopSleeps, idleBefore >>

\* The accumulator starts at 1 instead of 0 (line 29).
SupInstallTrapIdleOne ==
  /\ UNCHANGED nonSupVars
  /\ supPc = "launched"
  /\ supPc' = "poll"
  /\ idle_elapsed' = 1
  /\ UNCHANGED << CHECK_INTERVAL, IDLE_GRACE_SECONDS, stopFile, sshdAlive,
                  estab, sigPending, exitCode, termCause, lastProbe, polls,
                  idleRun, everActive, stopSleeps, idleBefore >>

\* lines 7-29: the trap is installed (line 19) and the settings are read.
SupInstallTrap ==
  /\ UNCHANGED nonSupVars
  /\ supPc = "launched"
  /\ supPc' = "poll"
  /\ idle_elapsed' = 0
  /\ UNCHANGED << CHECK_INTERVAL, IDLE_GRACE_SECONDS, stopFile, sshdAlive,
                  estab, sigPending, exitCode, termCause, lastProbe, polls,
                  idleRun, everActive, stopSleeps, idleBefore >>

\* Variant of cleanup(): exit 0 without the kill and the wait.
CleanupNoKill(cause) ==
  /\ UNCHANGED sshdAlive
  /\ supPc' = "exited"
  /\ exitCode' = 0
  /\ termCause' = cause

\* cleanup(), lines 12-18: kill sshd if it is alive, wait for it, exit 0.
Cleanup(cause) ==
  /\ sshdAlive' = FALSE
  /\ supPc' = "exited"
  /\ exitCode' = 0
  /\ termCause' = cause

\* lines 33-46.
SupPoll ==
  /\ UNCHANGED nonSupVars
  /\ supPc = "poll"
  /\ ~sigPending
  /\ polls < MaxPolls
  /\ LET o == PollOutcome(stopFile, estab, idle_elapsed, CHECK_INTERVAL,
                          IDLE_GRACE_SECONDS)
     IN  /\ stopFile' = IF o.rm THEN FALSE ELSE stopFile
         /\ idle_elapsed' = o.idle
         /\ lastProbe' = o.probe
         /\ polls' = polls + 1
         /\ idleRun' = IF o.probe = "skipped" THEN idleRun
                       ELSE IF estab THEN 0 ELSE idleRun + 1
         /\ everActive' = (everActive \/ (o.probe # "skipped" /\ estab))
         /\ stopSleeps' = IF o.rm THEN 0 ELSE stopSleeps
         /\ idleBefore' = idle_elapsed
         /\ IF o.exit # "none"
              THEN Cleanup(o.exit)
              ELSE /\ supPc' = "sleep"
                   /\ UNCHANGED << sshdAlive, exitCode, termCause >>
  /\ UNCHANGED << CHECK_INTERVAL, IDLE_GRACE_SECONDS, estab, sigPending >>

\* Variant: lines 51-53 are missing, the loop goes on without looking at sshd.
SupWakeNoLivenessCheck ==
  /\ UNCHANGED nonSupVars
  /\ supPc = "sleep"
  /\ IF sigPending
       THEN /\ Cleanup("signal")
            /\ sigPending' = FALSE
            /\ UNCHANGED stopSleeps
       ELSE /\ supPc' = "poll"
            /\ stopSleeps' = IF stopFile THEN stopSleeps + 1 ELSE stopSleeps
            /\ UNCHANGED << sshdAlive, sigPending, exitCode, termCause >>
  /\ UNCHANGED << CHECK_INTERVAL, IDLE_GRACE_SECONDS, idle_elapsed, stopFile,
                  estab, lastProbe, polls, idleRun, everActive, idleBefore >>

\* lines 48-53: the sleep ends; a pending trap runs first, otherwise the
\* liveness check of sshd decides between exit 1 and the next cycle.
SupWake ==
  /\ UNCHANGED nonSupVars
  /\ supPc = "sleep"
  /\ IF sigPending
       THEN /\ Cleanup("signal")
            /\ sigPending' = FALSE
            /\ UNCHANGED stopSleeps
       ELSE IF ~sshdAlive
         THEN /\ supPc' = "exited"
              /\ exitCode' = 1
              /\ termCause' = "sshd"
              /\ UNCHANGED << sshdAlive, sigPending, stopSleeps >>
         ELSE /\ supPc' = "poll"
              /\ stopSleeps' = IF stopFile THEN stopSleeps + 1 ELSE stopSleeps
              /\ UNCHANGED << sshdAlive, sigPending, exitCode, termCause >>
  /\ UNCHANGED << CHECK_INTERVAL, IDLE_GRACE_SECONDS, idle_elapsed, stopFile,
                  estab, lastProbe, polls, idleRun, everActive, idleBefore >>

\* line 19: the trap runs between two commands of the loop.
SupTrap ==
  /\ UNCHANGED nonSupVars
  /\ supPc = "poll"
  /\ sigPending
  /\ Cleanup("signal")
  /\ sigPending' = FALSE
  /\ UNCHANGED << CHECK_INTERVAL, IDLE_GRACE_SECONDS, idle_elapsed, stopFile,
                  estab, lastProbe, polls, idleRun, everActive, stopSleeps,
                  idleBefore >>

Supervising == supPc \in {"poll", "sleep"}

\* deactivate() of the remote-side extension writes the stop file.
EnvDeactivate ==
  /\ UNCHANGED nonSupVars
  /\ Supervising
  /\ ~stopFile
  /\ stopFile' = TRUE
  /\ UNCHANGED << supPc, CHECK_INTERVAL, IDLE_GRACE_SECONDS, idle_elapsed,
                  sshdAlive, estab, sigPending, exitCode, termCause,
                  lastProbe, polls, idleRun, everActive, stopSleeps,
                  idleBefore >>

EnvConnect ==
  /\ UNCHANGED nonSupVars
  /\ Supervising
  /\ sshdAlive
  /\ ~estab
  /\ estab' = TRUE
  /\ UNCHANGED << supPc, CHECK_INTERVAL, IDLE_GRACE_SECONDS, idle_elapsed,
                  stopFile, sshdAlive, sigPending, exitCode, termCause,
                  lastProbe, polls, idleRun, everActive, stopSleeps,
                  idleBefore >>

EnvDisconnect ==
  /\ UNCHANGED nonSupVars
  /\ Supervising
  /\ estab
  /\ estab' = FALSE
  /\ UNCHANGED << supPc, CHECK_INTERVAL, IDLE_GRACE_SECONDS, idle_elapsed,
                  stopFile, sshdAlive, sigPending, exitCode, termCause,
                  lastProbe, polls, idleRun, everActive, stopSleeps,
                  idleBefore >>

\* The sshd listener dies on its own; sessions it forked keep their sockets.
EnvSshdDies ==
  /\ UNCHANGED nonSupVars
  /\ Supervising
  /\ sshdAlive
  /\ sshdAlive' = FALSE
  /\ UNCHANGED << supPc, CHECK_INTERVAL, IDLE_GRACE_SECONDS, idle_elapsed,
                  stopFile, estab, sigPending, exitCode, termCause,
                  lastProbe, polls, idleRun, everActive, stopSleeps,
                  idleBefore >>

\* A TERM / INT delivered between lines 6 and 19 meets the default
\* disposition: the shell is terminated by the signal (status 128 + 15) and
\* the sshd it launched runs on. (Delivered to a shell that runs as PID 1 of
\* the container, the signal is discarded: no step.)
EnvSignalBeforeTrap ==
  /\ UNCHANGED nonSupVars
  /\ supPc = "launched"
  /\ supPc' = "exited"
  /\ exitCode' = 128 + 15
  /\ termCause' = "killed"
  /\ UNCHANGED << CHECK_INTERVAL, IDLE_GRACE_SECONDS, idle_elapsed, stopFile,
                  sshdAlive, estab, sigPending, lastProbe, polls, idleRun,
                  everActive, stopSleeps, idleBefore >>

\* docker stop / Ctrl-C deliver TERM / INT to the supervisor.
EnvSignal ==
  /\ UNCHANGED nonSupVars
  /\ Supervising
  /\ ~sigPending
  /\ sigPending' = TRUE
  /\ UNCHANGED << supPc, CHECK_INTERVAL, IDLE_GRACE_SECONDS, idle_elapsed,
                  stopFile, sshdAlive, estab, exitCode, termCause,
                  lastProbe, polls, idleRun, everActive, stopSleeps,
                  idleBefore >>

SupNext ==
  \/ SupLaunch
  \/ SupInstallTrap
  \/ SupPoll
  \/ SupWake
  \/ SupTrap
  \/ EnvDeactivate
  \/ EnvConnect
  \/ EnvDisconnect
  \/ EnvSshdDies
  \/ EnvSignalBeforeTrap
  \/ EnvSignal

\* ---------------------------------------------------------------- reconciler

\* number | undefined of the TypeScript source: the value of a failed query.
\* Ports and timestamps are positive, and the source tests a port with !port,
\* which holds of undefined and of 0 alike.
Undefined == 0

\* resolved.containerName: "codium-devcontainer-" and the workspace slug.
ContainerName == "codium-devcontainer-app"

EphemeralPorts == 1 .. MaxPort

\* findFreePort: the kernel-assigned port of a listener bound to port 0, or
\* the fallback when binding fails.
findFreePort == EphemeralPorts \cup {FallbackPort}

\* Variant: the exit code of the inspect is not looked at.
containerExistsAlways == TRUE

\* containerExists: docker inspect <name> exits 0.
containerExists == cState # "absent"

\* Variant: the port string never parses to a finite number.
getMappedSshPortNone == Undefined

\* getMappedSshPort: HostPort of 22/tcp in .NetworkSettings.Ports, which the
\* engine fills in only while the container runs; the template fails
\* (exit code # 0) when there is no such binding.
getMappedSshPort ==
  IF cState = "running" /\ cPort # Undefined THEN cPort ELSE Undefined

\* Variant: the container is never reported as running.
isContainerRunningNever == FALSE

\* isContainerRunning: {{.State.Running}} prints true.
isContainerRunning == cState = "running"

getDevcontainerMtimeMs == dcMtime

\* getContainerCreatedMs: Date.parse of {{.Created}}, undefined when the
\* inspect fails.
getContainerCreatedMs == IF cState = "absent" THEN Undefined ELSE cCreated

\* Variant: the comparison is the wrong way round.
shouldRebuildForDevcontainerInverted ==
  /\ getDevcontainerMtimeMs # Undefined
  /\ getContainerCreatedMs # Undefined
  /\ getDevcontainerMtimeMs < getContainerCreatedMs

\* Variant: >= in place of >.
shouldRebuildForDevcontainerOnEqual ==
  /\ getDevcontainerMtimeMs # Undefined
  /\ getContainerCreatedMs # Undefined
  /\ getDevcontainerMtimeMs >= getContainerCreatedMs

shouldRebuildForDevcontainer ==
  /\ getDevcontainerMtimeMs # Undefined
  /\ getContainerCreatedMs # Undefined
  /\ getDevcontainerMtimeMs > getContainerCreatedMs

\* Variant: shouldRebuild starts out false whatever the caller asked for.
InitialShouldRebuildIgnored(force) == FALSE

\* line 401: let shouldRebuild = forceRebuild.
InitialShouldRebuild(force) == force

\* Variant: the two sides of the -p argument are swapped.
PublishedPortSwapped(hostPort) == SshPort

\* Variant: the container is always published on the fallback port.
PublishedPortFixed(hostPort) == FallbackPort

\* line 225: -p 127.0.0.1:${hostPort}:22.
PublishedPort(hostPort) == hostPort

InLog(c) == \E i \in 1 .. Len(log) : log[i] = c

RecInit ==
  /\ cState = "absent"
  /\ cPort = Undefined
  /\ cCreated = Undefined
  /\ now = 1
  /\ dcMtime = 1
  /\ pc = "idle"
  /\ forceRebuild = FALSE
  /\ shouldRebuild = FALSE
  /\ port = Undefined
  /\ outcome = "none"
  /\ retPort = Undefined
  /\ retName = "none"
  /\ log = << >>
  /\ choice = "none"
  /\ choice2 = "none"
  /\ pre = [state |-> "absent", port |-> Undefined, stale |-> FALSE]
  /\ upAfterStart = FALSE
  /\ lastRet = Undefined

engineVars == << cState, cPort, cCreated >>
hostVars == << now, dcMtime >>

\* The caller (openFolderOverSsh) enters ensureContainerReadyAndGetPort;
\* lines 398-402.
RecCall(force) ==
  /\ pc = "idle"
  /\ pc' = "exists"
  /\ forceRebuild' = force
  /\ shouldRebuild' = InitialShouldRebuild(force)
  /\ port' = Undefined
  /\ outcome' = "none"
  /\ retPort' = Undefined
  /\ retName' = "none"
  /\ log' = << >>
  /\ choice' = "none"
  /\ choice2' = "none"
  /\ pre' = [state |-> cState, port |-> cPort,
             stale |-> (cState # "absent" /\ dcMtime > cCreated)]
  /\ upAfterStart' = FALSE
  /\ UNCHANGED << engineVars, hostVars, lastRet, nonRecVars >>

\* Variant: the error is swallowed and the call goes on to line 462.
ThrowSwallowed(kind) ==
  /\ pc' = "decide"
  /\ UNCHANGED outcome

\* throw new Error(...) out of the call.
Throw(kind) ==
  /\ pc' = "done"
  /\ outcome' = kind

\* line 467: return { port, containerName, imageName }.
Return(p) ==
  /\ pc' = "done"
  /\ outcome' = "ok"
  /\ retPort' = p
  /\ retName' = ContainerName

\* lines 400, 404-405, 458-460.
RecExists ==
  /\ pc = "exists"
  /\ IF containerExists
       THEN /\ pc' = IF forceRebuild THEN "start" ELSE "config"
            /\ UNCHANGED shouldRebuild
       ELSE /\ pc' = "decide"
            /\ shouldRebuild' = TRUE
  /\ UNCHANGED << engineVars, hostVars, forceRebuild, port, outcome, retPort,
                  retName, log, choice, choice2, pre, upAfterStart, lastRet,
                  nonRecVars >>

\* lines 406-408.
RecConfig ==
  /\ pc = "config"
  /\ shouldRebuild' = shouldRebuildForDevcontainer
  /\ pc' = IF shouldRebuildForDevcontainer THEN "prompt" ELSE "start"
  /\ UNCHANGED << engineVars, hostVars, forceRebuild, port, outcome, retPort,
                  retName, log, choice, choice2, pre, upAfterStart, lastRet,
                  nonRecVars >>

\* lines 409-420: the "Rebuild" / "Reuse" decision point.
RecPrompt ==
  /\ pc = "prompt"
  /\ log' = Append(log, "prompt")
  /\ \E c \in {"Rebuild", "Reuse", "dismissed"} :
       /\ choice' = c
       /\ IF c = "dismissed"
            THEN /\ Throw("cancelled")
                 /\ UNCHANGED shouldRebuild
            ELSE /\ shouldRebuild' = (c = "Rebuild")
                 /\ pc' = "start"
                 /\ UNCHANGED outcome
  /\ UNCHANGED << engineVars, hostVars, forceRebuild, port, retPort, retName,
                  choice2, pre, upAfterStart, lastRet, nonRecVars >>

\* ensureContainerStarted (lines 252-256): docker start, docker restart when
\* that fails, and nothing when the restart fails too. Starting a running
\* container succeeds and changes nothing.
ensureContainerStarted(next) ==
  /\ pc' = next
  /\ \/ /\ cState = "running"
        /\ log' = Append(log, "start")
        /\ UNCHANGED cState
     \/ /\ cState = "stopped"
        /\ log' = Append(log, "start")
        /\ cState' = "running"
     \/ /\ cState # "running"
        /\ log' = log \o << "start", "restart" >>
        /\ \/ cState = "stopped" /\ cState' = "running"
           \/ UNCHANGED cState
  /\ UNCHANGED << cPort, cCreated >>

\* line 423.
RecStart ==
  /\ pc = "start"
  /\ ensureContainerStarted("port")
  /\ upAfterStart' = (cState' = "running")
  /\ UNCHANGED << hostVars, forceRebuild, shouldRebuild, port, outcome,
                  retPort, retName, choice, choice2, pre, lastRet, nonRecVars >>

\* lines 424-432.
RecPort ==
  /\ pc = "port"
  /\ port' = getMappedSshPort
  /\ shouldRebuild' =
       IF port' = Undefined /\ ~shouldRebuild THEN TRUE ELSE shouldRebuild
  /\ pc' = IF shouldRebuild' \/ port' = Undefined THEN "running" ELSE "decide"
  /\ UNCHANGED << engineVars, hostVars, forceRebuild, outcome, retPort,
                  retName, log, choice, choice2, pre, upAfterStart, lastRet,
                  nonRecVars >>

\* lines 433-434.
RecRunning ==
  /\ pc = "running"
  /\ pc' = IF isContainerRunning THEN "prompt2" ELSE "decide"
  /\ UNCHANGED << engineVars, hostVars, forceRebuild, shouldRebuild, port,
                  outcome, retPort, retName, log, choice, choice2, pre,
                  upAfterStart, lastRet, nonRecVars >>

\* Variant of RecPrompt2: "Reuse" leaves shouldRebuild as it was.
RecPrompt2ReuseIgnored ==
  /\ pc = "prompt2"
  /\ log' = Append(log, "prompt2")
  /\ \E c \in {"Kill & Rebuild", "Reuse", "dismissed"} :
       /\ choice2' = c
       /\ CASE c = "dismissed" ->
                 /\ Throw("cancelled")
                 /\ UNCHANGED shouldRebuild
            [] c = "Reuse" ->
                 /\ pc' = "reuseStart"
                 /\ UNCHANGED << shouldRebuild, outcome >>
            [] OTHER ->
                 /\ pc' = "decide"
                 /\ UNCHANGED << shouldRebuild, outcome >>
  /\ UNCHANGED << engineVars, hostVars, forceRebuild, port, retPort, retName,
                  choice, pre, upAfterStart, lastRet, nonRecVars >>

\* lines 435-446: the "Kill & Rebuild" / "Reuse" decision point.
RecPrompt2 ==
  /\ pc = "prompt2"
  /\ log' = Append(log, "prompt2")
  /\ \E c \in {"Kill & Rebuild", "Reuse", "dismissed"} :
       /\ choice2' = c
       /\ CASE c = "dismissed" ->
                 /\ Throw("cancelled")
                 /\ UNCHANGED shouldRebuild
            [] c = "Reuse" ->
                 /\ shouldRebuild' = FALSE
                 /\ pc' = "reuseStart"
                 /\ UNCHANGED outcome
            [] OTHER ->
                 /\ pc' = "decide"
                 /\ UNCHANGED << shouldRebuild, outcome >>
  /\ UNCHANGED << engineVars, hostVars, forceRebuild, port, retPort, retName,
                  choice, pre, upAfterStart, lastRet, nonRecVars >>

\* line 447.
RecReuseStart ==
  /\ pc = "reuseStart"
  /\ ensureContainerStarted("reusePort")
  /\ UNCHANGED << hostVars, forceRebuild, shouldRebuild, port, outcome,
                  retPort, retName, choice, choice2, pre, upAfterStart,
                  lastRet, nonRecVars >>

\* lines 448-454.
RecReusePort ==
  /\ pc = "reusePort"
  /\ port' = getMappedSshPort
  /\ shouldRebuild' = IF port' = Undefined THEN TRUE ELSE shouldRebuild
  /\ pc' = "decide"
  /\ UNCHANGED << engineVars, hostVars, forceRebuild, outcome, retPort,
                  retName, log, choice, choice2, pre, upAfterStart, lastRet,
                  nonRecVars >>

\* Variant of RecDecide: a rebuild always takes a port from findFreePort.
RecDecideAlwaysAllocates ==
  /\ pc = "decide"
  /\ IF shouldRebuild \/ port = Undefined
       THEN /\ pc' = "build"
            /\ port' \in findFreePort
            /\ log' = Append(log, "alloc")
            /\ UNCHANGED << outcome, retPort, retName >>
       ELSE /\ Return(port)
            /\ UNCHANGED << port, log >>
  /\ UNCHANGED << engineVars, hostVars, forceRebuild, shouldRebuild, choice,
                  choice2, pre, upAfterStart, lastRet, nonRecVars >>

\* lines 462-463 and 467: rebuild with the discovered port, or with a newly
\* allocated one; otherwise return the discovered port.
RecDecide ==
  /\ pc = "decide"
  /\ IF shouldRebuild \/ port = Undefined
       THEN /\ pc' = "build"
            /\ IF port = Undefined
                 THEN /\ port' \in findFreePort
                      /\ log' = Append(log, "alloc")
                 ELSE UNCHANGED << port, log >>
            /\ UNCHANGED << outcome, retPort, retName >>
       ELSE /\ Return(port)
            /\ UNCHANGED << port, log >>
  /\ UNCHANGED << engineVars, hostVars, forceRebuild, shouldRebuild, choice,
                  choice2, pre, upAfterStart, lastRet, nonRecVars >>

\* Variant of RecBuild: the old container is stopped although the build
\* failed.
RecBuildFailureStops ==
  /\ pc = "build"
  /\ \/ /\ log' = Append(log, "build")
        /\ pc' = "stop"
        /\ UNCHANGED << engineVars, outcome >>
     \/ /\ log' = log \o << "build", "stop" >>
        /\ cState' = IF cState = "running" THEN "stopped" ELSE cState
        /\ UNCHANGED << cPort, cCreated >>
        /\ Throw("error")
  /\ UNCHANGED << hostVars, forceRebuild, shouldRebuild, port, retPort,
                  retName, choice, choice2, pre, upAfterStart, lastRet,
                  nonRecVars >>

\* rebuildContainer, lines 376-383: buildImageWithEntrypoint; a failed
\* docker build rejects and the call throws.
RecBuild ==
  /\ pc = "build"
  /\ log' = Append(log, "build")
  /\ \/ /\ pc' = "stop"
        /\ UNCHANGED outcome
     \/ Throw("error")
  /\ UNCHANGED << engineVars, hostVars, forceRebuild, shouldRebuild, port,
                  retPort, retName, choice, choice2, pre, upAfterStart,
                  lastRet, nonRecVars >>

\* dockerRestartContainer, lines 207-209: docker stop, failure ignored.
RecStop ==
  /\ pc = "stop"
  /\ log' = Append(log, "stop")
  /\ cState' = IF cState = "running" THEN "stopped" ELSE cState
  /\ pc' = "rm"
  /\ UNCHANGED << cPort, cCreated, hostVars, forceRebuild, shouldRebuild,
                  port, outcome, retPort, retName, choice, choice2, pre,
                  upAfterStart, lastRet, nonRecVars >>

\* dockerRestartContainer, lines 210-212: docker rm -f, failure ignored.
RecRm ==
  /\ pc = "rm"
  /\ log' = Append(log, "rm")
  /\ cState' = "absent"
  /\ cPort' = Undefined
  /\ cCreated' = Undefined
  /\ pc' = "run"
  /\ UNCHANGED << hostVars, forceRebuild, shouldRebuild, port, outcome,
                  retPort, retName, choice, choice2, pre, upAfterStart,
                  lastRet, nonRecVars >>

\* Variant of RecRun: a failed docker run is tried a second time.
RecRunRetries ==
  /\ pc = "run"
  /\ \/ /\ cState = "absent"
        /\ log' = Append(log, "run")
        /\ cState' = "running"
        /\ cPort' = PublishedPort(port)
        /\ cCreated' = now
        /\ Return(port)
     \/ /\ log' = log \o << "run", "run" >>
        /\ UNCHANGED engineVars
        /\ Throw("error")
        /\ UNCHANGED << retPort, retName >>
  /\ UNCHANGED << hostVars, forceRebuild, shouldRebuild, port, choice,
                  choice2, pre, upAfterStart, lastRet, nonRecVars >>

\* dockerRestartContainer, lines 217-231: docker run -d --name ... -p ...;
\* then line 467. The engine refuses a name in use; a run that fails may
\* leave the container created but not running (host port busy).
RecRun ==
  /\ pc = "run"
  /\ log' = Append(log, "run")
  /\ \/ /\ cState = "absent"
        /\ cState' = "running"
        /\ cPort' = PublishedPort(port)
        /\ cCreated' = now
        /\ Return(port)
     \/ /\ cState = "absent"
        /\ cState' = "stopped"
        /\ cPort' = PublishedPort(port)
        /\ cCreated' = now
        /\ Throw("error")
        /\ UNCHANGED << retPort, retName >>
     \/ /\ UNCHANGED engineVars
        /\ Throw("error")
        /\ UNCHANGED << retPort, retName >>
  /\ UNCHANGED << hostVars, forceRebuild, shouldRebuild, port, choice,
                  choice2, pre, upAfterStart, lastRet, nonRecVars >>

\* The caller takes the result (or the error) and the command ends.
RecFinish ==
  /\ pc = "done"
  /\ pc' = "idle"
  /\ lastRet' = IF outcome = "ok" THEN retPort ELSE Undefined
  /\ UNCHANGED << engineVars, hostVars, forceRebuild, shouldRebuild, port,
                  outcome, retPort, retName, log, choice, choice2, pre,
                  upAfterStart, nonRecVars >>

callVars ==
  << pc, forceRebuild, shouldRebuild, port, outcome, retPort, retName, log,
     choice, choice2, pre, upAfterStart >>

\* Between two calls: the host clock advances.
EnvTick ==
  /\ pc = "idle"
  /\ now < MaxTime
  /\ now' = now + 1
  /\ UNCHANGED << engineVars, dcMtime, callVars, lastRet, nonRecVars >>

\* Between two calls: the user saves devcontainer.json.
EnvTouchConfig ==
  /\ pc = "idle"
  /\ dcMtime # now
  /\ dcMtime' = now
  /\ UNCHANGED << engineVars, now, callVars, lastRet, nonRecVars >>

\* Between two calls: the supervisor inside the container exits (idle, stop
\* file) and the container stops.
EnvContainerExits ==
  /\ pc = "idle"
  /\ cState = "running"
  /\ cState' = "stopped"
  /\ lastRet' = Undefined
  /\ UNCHANGED << cPort, cCreated, hostVars, callVars, nonRecVars >>

\* Between two calls: docker rm -f from a terminal (the README's advice).
EnvDockerRm ==
  /\ pc = "idle"
  /\ cState # "absent"
  /\ cState' = "absent"
  /\ cPort' = Undefined
  /\ cCreated' = Undefined
  /\ lastRet' = Undefined
  /\ UNCHANGED << hostVars, callVars, nonRecVars >>

\* Between two calls: a container of that name is run by other means, with
\* or without a published SSH port.
EnvDockerRun ==
  /\ pc = "idle"
  /\ cState = "absent"
  /\ cState' = "running"
  /\ cPort' \in EphemeralPorts \cup {Undefined}
  /\ cCreated' = now
  /\ lastRet' = Undefined
  /\ UNCHANGED << hostVars, callVars, nonRecVars >>

RecNext ==
  \/ \E force \in BOOLEAN : RecCall(force)
  \/ RecExists
  \/ RecConfig
  \/ RecPrompt
  \/ RecStart
  \/ RecPort
  \/ RecRunning
  \/ RecPrompt2
  \/ RecReuseStart
  \/ RecReusePort
  \/ RecDecide
  \/ RecBuild
  \/ RecStop
  \/ RecRm
  \/ RecRun
  \/ RecFinish
  \/ EnvTick
  \/ EnvTouchConfig
  \/ EnvContainerExits
  \/ EnvDockerRm
  \/ EnvDockerRun

\* ------------------------------------------------------------ build pipeline

\* text.includes("# Added by codiumDevcontainer: entrypoint"); the template
\* itself carries the marker (entrypoint.sh line 2).
HasMarker(content) == content \in {"userMarked", "template"}

BldInit ==
  /\ epFile = "absent"
  /\ tmpExists = FALSE
  /\ bPc = "idle"
  /\ bStaged = FALSE
  /\ tempDockerfile = FALSE
  /\ buildOk = FALSE
  /\ bOutcome = "none"
  /\ bPre = [ep |-> "absent", tmp |-> FALSE]

\* rebuildContainer (line 376) or buildAndRun enters buildImageWithEntrypoint.
BldCall ==
  /\ bPc = "idle"
  /\ bPc' = "stage"
  /\ bStaged' = FALSE
  /\ tempDockerfile' = FALSE
  /\ buildOk' = FALSE
  /\ bOutcome' = "none"
  /\ bPre' = [ep |-> epFile, tmp |-> tmpExists]
  /\ UNCHANGED << epFile, tmpExists, nonBldVars >>

\* stageEntrypointTemporarily, lines 296-313: the template is written over
\* whatever is there unless the file exists and carries the marker; an
\* exception (mkdir, read of the template, write) is logged and dropped.
BldStage ==
  /\ bPc = "stage"
  /\ bPc' = "dockerfile"
  /\ IF ~HasMarker(epFile)
       THEN \/ epFile' = "template" /\ bStaged' = TRUE
            \/ UNCHANGED << epFile, bStaged >>
       ELSE UNCHANGED << epFile, bStaged >>
  /\ UNCHANGED << tmpExists, tempDockerfile, buildOk, bOutcome, bPre,
                  nonBldVars >>

\* createTemporaryDockerfile, lines 331-349, called at line 360 outside the
\* try: it writes Dockerfile.codium-temp, or throws (template unreadable,
\* file not writable) and the exception leaves buildImageWithEntrypoint.
BldDockerfile ==
  /\ bPc = "dockerfile"
  /\ \/ /\ tmpExists' = TRUE
        /\ tempDockerfile' = TRUE
        /\ bPc' = "build"
        /\ UNCHANGED bOutcome
     \/ /\ bPc' = "done"
        /\ bOutcome' = "error"
        /\ UNCHANGED << tmpExists, tempDockerfile >>
  /\ UNCHANGED << epFile, bStaged, buildOk, bPre, nonBldVars >>

\* dockerBuildImage, line 362: docker build exits 0 or not.
BldBuild ==
  /\ bPc = "build"
  /\ buildOk' \in BOOLEAN
  /\ bPc' = "cleanup"
  /\ UNCHANGED << epFile, tmpExists, bStaged, tempDockerfile, bOutcome, bPre,
                  nonBldVars >>

\* cleanupEntrypointIfManaged, lines 315-329 (line 364, in the finally).
BldCleanup ==
  /\ bPc = "cleanup"
  /\ epFile' = IF epFile # "absent" /\ HasMarker(epFile) THEN "absent" ELSE epFile
  /\ bPc' = "rmtemp"
  /\ UNCHANGED << tmpExists, bStaged, tempDockerfile, buildOk, bOutcome, bPre,
                  nonBldVars >>

\* lines 365-367, then the finally rethrows a failed build.
BldRmTemp ==
  /\ bPc = "rmtemp"
  /\ tmpExists' = IF tempDockerfile /\ tmpExists THEN FALSE ELSE tmpExists
  /\ bPc' = "done"
  /\ bOutcome' = IF buildOk THEN "ok" ELSE "error"
  /\ UNCHANGED << epFile, bStaged, tempDockerfile, buildOk, bPre, nonBldVars >>

\* The caller takes the result (or the error).
BldFinish ==
  /\ bPc = "done"
  /\ bPc' = "idle"
  /\ UNCHANGED << epFile, tmpExists, bStaged, tempDockerfile, buildOk,
                  bOutcome, bPre, nonBldVars >>

\* The extension host is closed while docker build runs: no finally runs.
EnvHostKilled ==
  /\ bPc = "build"
  /\ bPc' = "idle"
  /\ bOutcome' = "killed"
  /\ UNCHANGED << epFile, tmpExists, bStaged, tempDockerfile, buildOk, bPre,
                  nonBldVars >>

\* Between two builds: the user saves an entrypoint.sh of their own, with or
\* without the marker line in it.
EnvUserWritesEntrypoint ==
  /\ bPc = "idle"
  /\ \E c \in {"user", "userMarked"} : c # epFile /\ epFile' = c
  /\ UNCHANGED << tmpExists, bPc, bStaged, tempDockerfile, buildOk, bOutcome,
                  bPre, nonBldVars >>

\* Between two builds: the user deletes entrypoint.sh.
EnvUserDeletesEntrypoint ==
  /\ bPc = "idle"
  /\ epFile # "absent"
  /\ epFile' = "absent"
  /\ UNCHANGED << tmpExists, bPc, bStaged, tempDockerfile, buildOk, bOutcome,
                  bPre, nonBldVars >>

BldNext ==
  \/ BldCall
  \/ BldStage
  \/ BldDockerfile
  \/ BldBuild
  \/ BldCleanup
  \/ BldRmTemp
  \/ BldFinish
  \/ EnvHostKilled
  \/ EnvUserWritesEntrypoint
  \/ EnvUserDeletesEntrypoint

\* -------------------------------------------------------------- SSH bootstrap

\* Variant: a malformed local configuration does not count as a failure.
verifySshLoginConfigTolerant(result) ==
  [ok |-> IF result \in {"ok", "badconfig"} THEN "true" ELSE "false",
   warning |-> IF result = "ok" THEN "none"
               ELSE IF result = "badconfig" THEN "config" ELSE "login"]

\* verifySshLogin, lines 101-127. result is what runCommandCapture resolved
\* with: exit code 0, non-zero with "Bad configuration option" on stderr,
\* non-zero otherwise, or the spawn error it turns into code 1 (line 169 of
\* devcontainerCore).
verifySshLogin(result) ==
  [ok |-> IF result = "ok" THEN "true" ELSE "false",
   warning |-> IF result = "ok" THEN "none"
               ELSE IF result = "badconfig" THEN "config" ELSE "login"]

SshInit ==
  /\ hasSshRemote = FALSE
  /\ sPc = "idle"
  /\ pubKeyPath = "unset"
  /\ sshResult = "none"
  /\ ok = "unset"
  /\ warning = "none"
  /\ extChoice = "none"
  /\ manualTerminal = FALSE
  /\ folderOpened = FALSE
  /\ sOutcome = "none"
  /\ thrownBy = "none"

\* An exception leaves openWorkspaceOverSsh.
SshThrow(callee) ==
  /\ sPc' = "done"
  /\ sOutcome' = "error"
  /\ thrownBy' = callee

\* openWorkspaceOverSsh is entered; line 241 (getEffectiveUser, whose
\* queries never reject).
SshCall ==
  /\ sPc = "idle"
  /\ sPc' = "key"
  /\ pubKeyPath' = "unset"
  /\ sshResult' = "none"
  /\ ok' = "unset"
  /\ warning' = "none"
  /\ extChoice' = "none"
  /\ manualTerminal' = FALSE
  /\ folderOpened' = FALSE
  /\ sOutcome' = "none"
  /\ thrownBy' = "none"
  /\ UNCHANGED << hasSshRemote, nonSshVars >>

\* setupSshAccess line 147: resolvePublicKeyPath (lines 59-82).
SshResolveKey ==
  /\ sPc = "key"
  /\ pubKeyPath' \in {"found", "undefined"}
  /\ sPc' = IF pubKeyPath' = "found" THEN "install" ELSE "verify"
  /\ UNCHANGED << hasSshRemote, sshResult, ok, warning, extChoice,
                  manualTerminal, folderOpened, sOutcome, thrownBy,
                  nonSshVars >>

\* setupSshAccess line 149: ensureAuthorizedKeyInContainer (lines 84-99),
\* whose docker exec commands reject on a non-zero exit.
SshInstallKey ==
  /\ sPc = "install"
  /\ \/ sPc' = "verify" /\ UNCHANGED << sOutcome, thrownBy >>
     \/ SshThrow("ensureAuthorizedKeyInContainer")
  /\ UNCHANGED << hasSshRemote, pubKeyPath, sshResult, ok, warning, extChoice,
                  manualTerminal, folderOpened, nonSshVars >>

\* setupSshAccess lines 151-152, and line 242 of the caller.
SshVerify ==
  /\ sPc = "verify"
  /\ \E result \in {"ok", "badconfig", "denied", "spawnerr"} :
       /\ sshResult' = result
       /\ ok' = verifySshLogin(result).ok
       /\ warning' = verifySshLogin(result).warning
  /\ sPc' = "alias"
  /\ UNCHANGED << hasSshRemote, pubKeyPath, extChoice, manualTerminal,
                  folderOpened, sOutcome, thrownBy, nonSshVars >>

\* line 245: ensureSshConfigHostAlias (lines 191-214), synchronous file
\* operations outside any try.
SshAlias ==
  /\ sPc = "alias"
  /\ \/ sPc' = "ext" /\ UNCHANGED << sOutcome, thrownBy >>
     \/ SshThrow("ensureSshConfigHostAlias")
  /\ UNCHANGED << hasSshRemote, pubKeyPath, sshResult, ok, warning, extChoice,
                  manualTerminal, folderOpened, nonSshVars >>

\* line 246: ensureSshRemoteExtensionAvailable (lines 216-233).
SshExt ==
  /\ sPc = "ext"
  /\ IF hasSshRemote
       THEN /\ sPc' = "branch"
            /\ UNCHANGED << hasSshRemote, extChoice, sOutcome, thrownBy >>
       ELSE \E c \in {"Install", "Cancel", "dismissed"} :
              /\ extChoice' = c
              /\ IF c = "Install"
                   THEN /\ hasSshRemote' = TRUE
                        /\ sPc' = "branch"
                        /\ UNCHANGED << sOutcome, thrownBy >>
                   ELSE /\ SshThrow("ensureSshRemoteExtensionAvailable")
                        /\ UNCHANGED hasSshRemote
  /\ UNCHANGED << pubKeyPath, sshResult, ok, warning, manualTerminal,
                  folderOpened, nonSshVars >>

\* lines 247-261: the manual terminal, or vscode.openFolder.
SshBranch ==
  /\ sPc = "branch"
  /\ sPc' = "done"
  /\ sOutcome' = "returned"
  /\ IF ok = "false"
       THEN manualTerminal' = TRUE /\ UNCHANGED folderOpened
       ELSE folderOpened' = TRUE /\ UNCHANGED manualTerminal
  /\ UNCHANGED << hasSshRemote, pubKeyPath, sshResult, ok, warning, extChoice,
                  thrownBy, nonSshVars >>

\* openFolderOverSsh takes the result, or reports the error (its catch).
SshFinish ==
  /\ sPc = "done"
  /\ sPc' = "idle"
  /\ UNCHANGED << hasSshRemote, pubKeyPath, sshResult, ok, warning, extChoice,
                  manualTerminal, folderOpened, sOutcome, thrownBy,
                  nonSshVars >>

\* Between two calls: the user removes the SSH remote extension.
EnvUninstallSshRemote ==
  /\ sPc = "idle"
  /\ hasSshRemote
  /\ hasSshRemote' = FALSE
  /\ UNCHANGED << sPc, pubKeyPath, sshResult, ok, warning, extChoice,
                  manualTerminal, folderOpened, sOutcome, thrownBy,
                  nonSshVars >>

SshNext ==
  \/ SshCall
  \/ SshResolveKey
  \/ SshInstallKey
  \/ SshVerify
  \/ SshAlias
  \/ SshExt
  \/ SshBranch
  \/ SshFinish
  \/ EnvUninstallSshRemote

\* ------------------------------------------------------------- workspace slug

Lowercase ==
  {"a", "b", "c", "d", "e", "f", "g", "h", "i", "j", "k", "l", "m", "n", "o",
   "p", "q", "r", "s", "t", "u", "v", "w", "x", "y", "z"}
Digits == {"0", "1", "2", "3", "4", "5", "6", "7", "8", "9"}
Separators == {".", "_", "-"}

\* The class [a-z0-9._-] of line 85.
SlugChars == Lowercase \cup Digits \cup Separators

\* Characters of the paths tried: a lowercase and an uppercase letter, a
\* digit, the three separators, a character outside every class ("#": a
\* space, an accent, ...) and the path separator.
PathChars == {"a", "B", "7", ".", "_", "-", "#", "/"}

Paths == UNION { [1 .. n -> PathChars] : n \in 0 .. MaxPathLen }

\* path.basename: trailing path separators are dropped, then everything up
\* to the last path separator.
basename(p) ==
  LET ends == { i \in 1 .. Len(p) : p[i] # "/" }
      n == IF ends = {} THEN 0 ELSE CHOOSE i \in ends : \A j \in ends : j <= i
      cuts == { i \in 1 .. n : p[i] = "/" }
      c == IF cuts = {} THEN 0 ELSE CHOOSE i \in cuts : \A j \in cuts : j <= i
  IN  SubSeq(p, c + 1, n)

\* String.prototype.toLowerCase, on the characters tried.
toLowerCase(str) ==
  [ i \in 1 .. Len(str) |-> IF str[i] = "B" THEN "b" ELSE str[i] ]

RECURSIVE SkipOutsideClass(_)
SkipOutsideClass(str) ==
  IF str = << >> \/ Head(str) \in SlugChars
    THEN str
    ELSE SkipOutsideClass(Tail(str))

\* replace(/[^a-z0-9._-]+/g, "-"), line 85: each maximal run of characters
\* outside the class becomes one "-".
RECURSIVE ReplaceOutsideClass(_)
ReplaceOutsideClass(str) ==
  IF str = << >> THEN << >>
  ELSE IF Head(str) \in SlugChars
    THEN << Head(str) >> \o ReplaceOutsideClass(Tail(str))
    ELSE << "-" >> \o ReplaceOutsideClass(SkipOutsideClass(Tail(str)))

\* Variant: only the leading run is removed (/^[._-]+/).
StripSeparatorsLeadingOnly(str) ==
  LET keep == { i \in 1 .. Len(str) : str[i] \notin Separators }
  IN  IF keep = {} THEN << >>
      ELSE SubSeq(str, CHOOSE i \in keep : \A j \in keep : i <= j, Len(str))

\* replace(/^[._-]+|[._-]+$/g, ""), line 86: the run of separators at the
\* start and the run at the end are removed.
StripSeparators(str) ==
  LET keep == { i \in 1 .. Len(str) : str[i] \notin Separators }
  IN  IF keep = {} THEN << >>
      ELSE SubSeq(str, CHOOSE i \in keep : \A j \in keep : i <= j,
                       CHOOSE i \in keep : \A j \in keep : j <= i)

Workspace == << "w", "o", "r", "k", "s", "p", "a", "c", "e" >>

\* makeWorkspaceSlug, lines 83-88.
makeWorkspaceSlug(p) ==
  LET name == toLowerCase(basename(p))
      slug == StripSeparators(ReplaceOutsideClass(name))
  IN  IF slug = << >> THEN Workspace ELSE slug

SlugInit ==
  /\ wsFsPath \in Paths
  /\ slugPc = "call"
  /\ slugRet = << >>

\* getContainerName / getImageName / getHostAlias call makeWorkspaceSlug.
SlugCompute ==
  /\ slugPc = "call"
  /\ slugRet' = makeWorkspaceSlug(wsFsPath)
  /\ slugPc' = "done"
  /\ UNCHANGED << wsFsPath, nonSlugVars >>

SlugNext == SlugCompute

\* No call of makeWorkspaceSlug under way.
SlugParked ==
  /\ wsFsPath = << >>
  /\ slugPc = "call"
  /\ slugRet = << >>

\* -------------------------------------------------- reconciler, engine faults

\* runCommandCapture, lines 144-172: the promise never rejects. A spawn
\* error (docker not on the PATH) resolves with code 1 (line 169), and an
\* engine that refuses the socket or cannot be reached exits non-zero like
\* an inspect of a name that does not exist. FatalAnswer is what the
\* queries make of it.
FatalAnswer ==
  [containerExists |-> FALSE,
   getMappedSshPort |-> Undefined,
   isContainerRunning |-> FALSE,
   getContainerCreatedMs |-> Undefined]

FltInit == faultHit = "none"

Hit(query) == faultHit' = IF faultHit = "none" THEN query ELSE faultHit

\* A call begins.
FltCall(force) ==
  /\ faultHit = "none"
  /\ RecCall(force)

\* line 400, the inspect meets a fatal error: lines 458-460.
FltExists ==
  /\ pc = "exists"
  /\ Hit("containerExists")
  /\ IF FatalAnswer.containerExists
       THEN /\ pc' = IF forceRebuild THEN "start" ELSE "config"
            /\ UNCHANGED shouldRebuild
       ELSE /\ pc' = "decide"
            /\ shouldRebuild' = TRUE
  /\ UNCHANGED << engineVars, hostVars, forceRebuild, port, outcome, retPort,
                  retName, log, choice, choice2, pre, upAfterStart, lastRet,
                  nonEngineVars >>

\* lines 406-408, the inspect of .Created meets a fatal error: createdMs is
\* undefined and line 293 answers false.
FltConfig ==
  /\ pc = "config"
  /\ Hit("getContainerCreatedMs")
  /\ LET rebuildNeeded ==
           /\ getDevcontainerMtimeMs # Undefined
           /\ FatalAnswer.getContainerCreatedMs # Undefined
           /\ getDevcontainerMtimeMs > FatalAnswer.getContainerCreatedMs
     IN  /\ shouldRebuild' = rebuildNeeded
         /\ pc' = IF rebuildNeeded THEN "prompt" ELSE "start"
  /\ UNCHANGED << engineVars, hostVars, forceRebuild, port, outcome, retPort,
                  retName, log, choice, choice2, pre, upAfterStart, lastRet,
                  nonEngineVars >>

\* lines 424-432, the inspect of the port meets a fatal error.
FltPort ==
  /\ pc = "port"
  /\ Hit("getMappedSshPort")
  /\ port' = FatalAnswer.getMappedSshPort
  /\ shouldRebuild' =
       IF port' = Undefined /\ ~shouldRebuild THEN TRUE ELSE shouldRebuild
  /\ pc' = IF shouldRebuild' \/ port' = Undefined THEN "running" ELSE "decide"
  /\ UNCHANGED << engineVars, hostVars, forceRebuild, outcome, retPort,
                  retName, log, choice, choice2, pre, upAfterStart, lastRet,
                  nonEngineVars >>

\* lines 433-434, the inspect of .State.Running meets a fatal error.
FltRunning ==
  /\ pc = "running"
  /\ Hit("isContainerRunning")
  /\ pc' = IF FatalAnswer.isContainerRunning THEN "prompt2" ELSE "decide"
  /\ UNCHANGED << engineVars, hostVars, forceRebuild, shouldRebuild, port,
                  outcome, retPort, retName, log, choice, choice2, pre,
                  upAfterStart, lastRet, nonEngineVars >>

\* lines 448-454, the inspect of the port meets a fatal error.
FltReusePort ==
  /\ pc = "reusePort"
  /\ Hit("getMappedSshPort")
  /\ port' = FatalAnswer.getMappedSshPort
  /\ shouldRebuild' = IF port' = Undefined THEN TRUE ELSE shouldRebuild
  /\ pc' = "decide"
  /\ UNCHANGED << engineVars, hostVars, forceRebuild, outcome, retPort,
                  retName, log, choice, choice2, pre, upAfterStart, lastRet,
                  nonEngineVars >>

\* The caller takes the result (or the error) and the command ends.
FltFinish ==
  /\ pc = "done"
  /\ pc' = "idle"
  /\ lastRet' = IF outcome = "ok" THEN retPort ELSE Undefined
  /\ faultHit' = "none"
  /\ UNCHANGED << engineVars, hostVars, forceRebuild, shouldRebuild, port,
                  outcome, retPort, retName, log, choice, choice2, pre,
                  upAfterStart, nonEngineVars >>

\* ensureContainerReadyAndGetPort against an engine whose queries may each
\* meet a fatal error.
FltNext ==
  \/ \E force \in BOOLEAN : FltCall(force)
  \/ RecExists
  \/ FltExists
  \/ RecConfig
  \/ FltConfig
  \/ RecPrompt
  \/ RecStart
  \/ RecPort
  \/ FltPort
  \/ RecRunning
  \/ FltRunning
  \/ RecPrompt2
  \/ RecReuseStart
  \/ RecReusePort
  \/ FltReusePort
  \/ RecDecide
  \/ RecBuild
  \/ RecStop
  \/ RecRm
  \/ RecRun
  \/ FltFinish
  \/ EnvTick
  \/ EnvTouchConfig
  \/ EnvContainerExits
  \/ EnvDockerRm
  \/ EnvDockerRun

\* --------------------------------------------- concurrent command triggers

\* Two triggers of "Open Folder in Devcontainer (SSH)" or "Rebuild & Open"
\* in one window: each handler runs openFolderOverSsh, and the handlers
\* interleave at every await of ensureContainerReadyAndGetPort
\* (no lock is taken on the way in).
Invocations == {1, 2}

ConInit ==
  inv = [i \in Invocations |->
           [pc |-> "idle", force |-> FALSE, should |-> FALSE,
            port |-> Undefined, acted |-> FALSE]]

\* What a step of one invocation leaves alone beside the engine.
nonConEngineVars ==
  << supVars, hostVars, callVars, lastRet, bldVars, sshVars, slugVars,
     fltVars, psVars, usrVars, cfgVars, fpVars, dfVars, sesVars, accVars >>

InFlight(i) == inv[i].pc # "idle"

\* lines 398-402.
ConCall(i, force) ==
  /\ inv[i].pc = "idle"
  /\ inv' = [inv EXCEPT ![i] =
               [pc |-> "exists", force |-> force,
                should |-> InitialShouldRebuild(force),
                port |-> Undefined, acted |-> FALSE]]
  /\ UNCHANGED << engineVars, nonConEngineVars >>

\* lines 400, 404-405, 458-460.
ConExists(i) ==
  /\ inv[i].pc = "exists"
  /\ inv' = [inv EXCEPT ![i] =
               IF containerExists
                 THEN [@ EXCEPT !.pc = IF inv[i].force THEN "start"
                                        ELSE "config"]
                 ELSE [@ EXCEPT !.pc = "decide", !.should = TRUE]]
  /\ UNCHANGED << engineVars, nonConEngineVars >>

\* lines 406-408.
ConConfig(i) ==
  /\ inv[i].pc = "config"
  /\ inv' = [inv EXCEPT ![i] =
               [@ EXCEPT !.should = shouldRebuildForDevcontainer,
                         !.pc = IF shouldRebuildForDevcontainer
                                  THEN "prompt" ELSE "start"]]
  /\ UNCHANGED << engineVars, nonConEngineVars >>

\* lines 409-420.
ConPrompt(i) ==
  /\ inv[i].pc = "prompt"
  /\ \E c \in {"Rebuild", "Reuse", "dismissed"} :
       inv' = [inv EXCEPT ![i] =
                 IF c = "dismissed"
                   THEN [@ EXCEPT !.pc = "done"]
                   ELSE [@ EXCEPT !.pc = "start",
                                  !.should = (c = "Rebuild")]]
  /\ UNCHANGED << engineVars, nonConEngineVars >>

\* ensureContainerStarted (lines 252-256) on behalf of invocation i.
ConEnsureStarted(i, next) ==
  /\ inv' = [inv EXCEPT ![i] = [@ EXCEPT !.pc = next, !.acted = TRUE]]
  /\ \/ cState' = cState
     \/ cState = "stopped" /\ cState' = "running"
  /\ UNCHANGED << cPort, cCreated, nonConEngineVars >>

\* line 423.
ConStart(i) ==
  /\ inv[i].pc = "start"
  /\ ConEnsureStarted(i, "port")

\* lines 424-432.
ConPort(i) ==
  /\ inv[i].pc = "port"
  /\ LET p == getMappedSshPort
         s == IF p = Undefined THEN TRUE ELSE inv[i].should
     IN inv' = [inv EXCEPT ![i] =
                  [@ EXCEPT !.port = p, !.should = s,
                            !.pc = IF s \/ p = Undefined
                                     THEN "running" ELSE "decide"]]
  /\ UNCHANGED << engineVars, nonConEngineVars >>

\* lines 433-434.
ConRunning(i) ==
  /\ inv[i].pc = "running"
  /\ inv' = [inv EXCEPT ![i] =
               [@ EXCEPT !.pc = IF isContainerRunning
                                  THEN "prompt2" ELSE "decide"]]
  /\ UNCHANGED << engineVars, nonConEngineVars >>

\* lines 435-446.
ConPrompt2(i) ==
  /\ inv[i].pc = "prompt2"
  /\ \E c \in {"Kill & Rebuild", "Reuse", "dismissed"} :
       inv' = [inv EXCEPT ![i] =
                 CASE c = "dismissed" -> [@ EXCEPT !.pc = "done"]
                   [] c = "Reuse" -> [@ EXCEPT !.pc = "reuseStart",
                                               !.should = FALSE]
                   [] OTHER -> [@ EXCEPT !.pc = "decide"]]
  /\ UNCHANGED << engineVars, nonConEngineVars >>

\* line 447.
ConReuseStart(i) ==
  /\ inv[i].pc = "reuseStart"
  /\ ConEnsureStarted(i, "reusePort")

\* lines 448-454.
ConReusePort(i) ==
  /\ inv[i].pc = "reusePort"
  /\ LET p == getMappedSshPort
     IN inv' = [inv EXCEPT ![i] =
                  [@ EXCEPT !.port = p,
                            !.should = IF p = Undefined THEN TRUE
                                       ELSE @,
                            !.pc = "decide"]]
  /\ UNCHANGED << engineVars, nonConEngineVars >>

\* lines 462-463 and 467.
ConDecide(i) ==
  /\ inv[i].pc = "decide"
  /\ IF inv[i].should \/ inv[i].port = Undefined
       THEN \E p \in IF inv[i].port = Undefined
                       THEN findFreePort ELSE {inv[i].port} :
              inv' = [inv EXCEPT ![i] = [@ EXCEPT !.pc = "build",
                                                  !.port = p]]
       ELSE inv' = [inv EXCEPT ![i] = [@ EXCEPT !.pc = "done"]]
  /\ UNCHANGED << engineVars, nonConEngineVars >>

\* rebuildContainer, lines 376-383.
ConBuild(i) ==
  /\ inv[i].pc = "build"
  /\ \E built \in BOOLEAN :
       inv' = [inv EXCEPT ![i] =
                 [@ EXCEPT !.pc = IF built THEN "stop" ELSE "done",
                           !.acted = TRUE]]
  /\ UNCHANGED << engineVars, nonConEngineVars >>

\* dockerRestartContainer, lines 207-209.
ConStop(i) ==
  /\ inv[i].pc = "stop"
  /\ inv' = [inv EXCEPT ![i] = [@ EXCEPT !.pc = "rm", !.acted = TRUE]]
  /\ cState' = IF cState = "running" THEN "stopped" ELSE cState
  /\ UNCHANGED << cPort, cCreated, nonConEngineVars >>

\* dockerRestartContainer, lines 210-212.
ConRm(i) ==
  /\ inv[i].pc = "rm"
  /\ inv' = [inv EXCEPT ![i] = [@ EXCEPT !.pc = "run", !.acted = TRUE]]
  /\ cState' = "absent"
  /\ cPort' = Undefined
  /\ cCreated' = Undefined
  /\ UNCHANGED nonConEngineVars

\* dockerRestartContainer, lines 217-231; the engine refuses a name that
\* another invocation's run has taken in the meantime.
ConRun(i) ==
  /\ inv[i].pc = "run"
  /\ inv' = [inv EXCEPT ![i] = [@ EXCEPT !.pc = "done", !.acted = TRUE]]
  /\ \/ /\ cState = "absent"
        /\ cState' \in {"running", "stopped"}
        /\ cPort' = PublishedPort(inv[i].port)
        /\ cCreated' = now
     \/ UNCHANGED engineVars
  /\ UNCHANGED nonConEngineVars

\* The handler ends: openWorkspaceOverSsh, or withUiErrorHandling's catch.
ConFinish(i) ==
  /\ inv[i].pc = "done"
  /\ inv' = [inv EXCEPT ![i] = [@ EXCEPT !.pc = "idle"]]
  /\ UNCHANGED << engineVars, nonConEngineVars >>

\* Between the command triggers: the host clock advances, the user saves
\* devcontainer.json.
ConEnvTick == (\A i \in Invocations : ~InFlight(i)) /\ EnvTick

ConEnvTouchConfig == (\A i \in Invocations : ~InFlight(i)) /\ EnvTouchConfig

ConNext ==
  \/ \E i \in Invocations : \E force \in BOOLEAN : ConCall(i, force)
  \/ \E i \in Invocations : ConExists(i)
  \/ \E i \in Invocations : ConConfig(i)
  \/ \E i \in Invocations : ConPrompt(i)
  \/ \E i \in Invocations : ConStart(i)
  \/ \E i \in Invocations : ConPort(i)
  \/ \E i \in Invocations : ConRunning(i)
  \/ \E i \in Invocations : ConPrompt2(i)
  \/ \E i \in Invocations : ConReuseStart(i)
  \/ \E i \in Invocations : ConReusePort(i)
  \/ \E i \in Invocations : ConDecide(i)
  \/ \E i \in Invocations : ConBuild(i)
  \/ \E i \in Invocations : ConStop(i)
  \/ \E i \in Invocations : ConRm(i)
  \/ \E i \in Invocations : ConRun(i)
  \/ \E i \in Invocations : ConFinish(i)
  \/ ConEnvTick
  \/ ConEnvTouchConfig

\* ------------------------------------------ postStartCommand, once a session

\* The callers of runPostStartCommandOnce: activate (line 362) and the
\* watcher's onDidCreate and onDidChange handlers (lines 157-165).
Callers == {"activate", "onDidCreate", "onDidChange"}

\* A postStartCommand value: absent, a string (text) or a list of strings.
Absent == [kind |-> "absent", text |-> "", list |-> << >>]
Str(t) == [kind |-> "string", text |-> t, list |-> << >>]
List(l) == [kind |-> "list", text |-> "", list |-> l]

PostStartValues ==
  {Absent, Str(""), Str("cmd"), List(<< >>), List(<< "c1", "c2" >>)}

\* line 373: !postStart || (Array.isArray(postStart) && !postStart.length).
NoPostStart(postStart) ==
  \/ postStart.kind = "absent"
  \/ postStart.kind = "string" /\ postStart.text = ""
  \/ postStart.kind = "list" /\ postStart.list = << >>

\* A window before its extension host starts; workspaceState is persisted,
\* so the guard may be set by an earlier session.
PsInit ==
  /\ remoteName \in BOOLEAN
  /\ activated = FALSE
  /\ postStartCommand \in PostStartValues
  /\ psGuard \in BOOLEAN
  /\ psPc = [c \in Callers |-> "idle"]
  /\ psCmd = [c \in Callers |-> Absent]
  /\ psRuns = 0

PsParked ==
  /\ remoteName = FALSE
  /\ activated = FALSE
  /\ postStartCommand = Absent
  /\ psGuard = FALSE
  /\ psPc = [c \in Callers |-> "idle"]
  /\ psCmd = [c \in Callers |-> Absent]
  /\ psRuns = 0

\* runPostStartCommandOnce up to its first await, lines 365-370.
StartRun(c) ==
  /\ psPc[c] = "idle"
  /\ psPc' = [psPc EXCEPT ![c] = IF remoteName THEN "reading" ELSE "idle"]
  /\ UNCHANGED psGuard

\* activate, lines 132-167 and 362: resetPostStartGuard clears the key in a
\* remote window (line 140), then runPostStartCommandOnce starts.
PsActivate ==
  /\ ~activated
  /\ activated' = TRUE
  /\ psPc["activate"] = "idle"
  /\ psPc' = [psPc EXCEPT !["activate"] =
                IF remoteName THEN "reading" ELSE "idle"]
  /\ psGuard' = IF remoteName THEN FALSE ELSE psGuard
  /\ UNCHANGED << remoteName, postStartCommand, psCmd, psRuns, nonPsVars >>

\* devcontainer.json is created or saved: the watcher's handler starts
\* runPostStartCommandOnce (lines 157-165).
PsWatcher(c) ==
  /\ activated
  /\ c # "activate"
  /\ postStartCommand' \in PostStartValues
  /\ StartRun(c)
  /\ UNCHANGED << remoteName, activated, psCmd, psRuns, nonPsVars >>

\* lines 370-379: the configuration has been read; the guard is read and the
\* progress notification is opened.
PsCheck(c) ==
  /\ psPc[c] = "reading"
  /\ psCmd' = [psCmd EXCEPT ![c] = postStartCommand]
  /\ psPc' = [psPc EXCEPT ![c] =
                IF NoPostStart(postStartCommand) \/ psGuard
                  THEN "idle" ELSE "progress"]
  /\ UNCHANGED << remoteName, activated, postStartCommand, psGuard, psRuns,
                  nonPsVars >>

\* lines 383-390: after closePanel, the commands go to a new terminal.
PsSend(c) ==
  /\ psPc[c] = "progress"
  /\ psRuns' = psRuns + 1
  /\ psPc' = [psPc EXCEPT ![c] = "sent"]
  /\ UNCHANGED << remoteName, activated, postStartCommand, psGuard, psCmd,
                  nonPsVars >>

\* line 393: the guard is set.
PsUpdate(c) ==
  /\ psPc[c] = "sent"
  /\ psGuard' = TRUE
  /\ psPc' = [psPc EXCEPT ![c] = "idle"]
  /\ UNCHANGED << remoteName, activated, postStartCommand, psCmd, psRuns,
                  nonPsVars >>

PsNext ==
  \/ PsActivate
  \/ \E c \in Callers : PsWatcher(c)
  \/ \E c \in Callers : PsCheck(c)
  \/ \E c \in Callers : PsSend(c)
  \/ \E c \in Callers : PsUpdate(c)

\* ------------------------------------------------- the SSH user of a command

Users == {"root", "dev", "app", "node"}

SshCommands == {"openFolderInDevcontainer", "rebuildAndOpen", "buildAndRun"}

\* getContainerUsername, sshRuntime lines 12-21.
getContainerUsername == IF whoami # "" THEN whoami ELSE "root"

\* detectPreferredNonRootUser, sshRuntime lines 23-44: the first account
\* with uid >= 1000 other than nobody, else the first entry under /home,
\* else "" (undefined).
detectPreferredNonRootUser ==
  IF passwdUser # "" THEN passwdUser ELSE homeEntry

\* Variant of getEffectiveUser: the container is asked before remoteUser is
\* looked at, and a root default gives way to the candidate.
getEffectiveUserDetectFirst(remote) ==
  LET user == getContainerUsername
      alt == detectPreferredNonRootUser
  IN IF user = "root" /\ alt # ""
       THEN alt
       ELSE IF remote # "" THEN remote ELSE user

\* getEffectiveUser, sshRuntime lines 129-144.
getEffectiveUser(remote) ==
  IF remote # ""
    THEN remote
    ELSE LET user == getContainerUsername
             alt == detectPreferredNonRootUser
         IN IF user = "root" /\ alt # "" THEN alt ELSE user

UsrInit ==
  /\ remoteUser \in {"", "dev", "root"}
  /\ whoami \in {"", "root", "app"}
  /\ passwdUser \in {"", "node"}
  /\ command = "none"
  /\ uPc = "idle"
  /\ effectiveUser = ""
  /\ keyUser = ""
  /\ loginUser = ""

UsrParked ==
  /\ remoteUser = ""
  /\ whoami = "root"
  /\ passwdUser = ""
  /\ command = "none"
  /\ uPc = "idle"
  /\ effectiveUser = ""
  /\ keyUser = ""
  /\ loginUser = ""

usrEnv == << remoteUser, whoami, passwdUser >>

\* A command starts; the container is ready when it gets to the user
\* (extension.ts lines 198-206, 212-217).
UsrCommand(cmd) ==
  /\ uPc = "idle"
  /\ command' = cmd
  /\ uPc' = "user"
  /\ effectiveUser' = ""
  /\ keyUser' = ""
  /\ loginUser' = ""
  /\ UNCHANGED << usrEnv, nonUsrVars >>

\* openWorkspaceOverSsh passes remoteUser on (sshRuntime line 241, from
\* extension.ts line 207); buildAndRun calls getEffectiveUser with the
\* container name alone (extension.ts line 219).
UsrEffective ==
  /\ uPc = "user"
  /\ effectiveUser' = IF command = "buildAndRun"
                        THEN getEffectiveUser("")
                        ELSE getEffectiveUser(remoteUser)
  /\ uPc' = "setup"
  /\ UNCHANGED << usrEnv, command, keyUser, loginUser, nonUsrVars >>

\* setupSshAccess (sshRuntime lines 146-153): the key goes to the user's
\* authorized_keys when a public key was found, then the login is checked.
UsrSetup ==
  /\ uPc = "setup"
  /\ keyUser' \in {"", effectiveUser}
  /\ loginUser' = effectiveUser
  /\ uPc' = "done"
  /\ UNCHANGED << usrEnv, command, effectiveUser, nonUsrVars >>

\* The command ends (terminal or remote window opened).
UsrFinish ==
  /\ uPc = "done"
  /\ uPc' = "idle"
  /\ UNCHANGED << usrEnv, command, effectiveUser, keyUser, loginUser,
                  nonUsrVars >>

\* Between two commands the user edits remoteUser in devcontainer.json.
EnvEditRemoteUser ==
  /\ uPc = "idle"
  /\ remoteUser' \in {"", "dev", "root"} \ {remoteUser}
  /\ UNCHANGED << whoami, passwdUser, command, uPc, effectiveUser, keyUser,
                  loginUser, nonUsrVars >>

UsrNext ==
  \/ \E cmd \in SshCommands : UsrCommand(cmd)
  \/ UsrEffective
  \/ UsrSetup
  \/ UsrFinish
  \/ EnvEditRemoteUser

\* ------------------------------------------------------------- ~/.ssh/config

MaxWrites == 2
MaxPriorLines == 2

\* Session aliases are "codium-devcontainer-<slug>" (getHostAlias); an alias
\* is written here as the characters of its slug, so that one alias can be
\* the beginning of another ("app" and "app2").
Aliases == {<< "a" >>, << "a", "b" >>, << "b" >>}

SshUsers == {"root", "dev"}

\* The lines of the file. A block written by ensureSshConfigHostAlias is a
\* Host line and its options (HostName 127.0.0.1, Port, User,
\* StrictHostKeyChecking, UserKnownHostsFile; lines 197-205), held as one
\* Options line. Any other line either holds a capital Z or does not.
HostLine(alias) ==
  [kind |-> "Host", alias |-> alias, port |-> Undefined, user |-> ""]
OptionsLine(p, user) ==
  [kind |-> "Options", alias |-> << >>, port |-> p, user |-> user]
OtherLine ==
  [kind |-> "other", alias |-> << >>, port |-> Undefined, user |-> ""]
ZLine ==
  [kind |-> "Z", alias |-> << >>, port |-> Undefined, user |-> ""]

Lines ==
  {HostLine(a) : a \in Aliases}
    \cup {OptionsLine(p, u) : p \in EphemeralPorts, u \in {"root"}}
    \cup {OtherLine, ZLine}

\* lines 197-205.
Block(alias, p, user) == << HostLine(alias), OptionsLine(p, user) >>

\* "Host\s+${hostAlias}" matches at the beginning of the line: the line's
\* alias begins with hostAlias.
StartsWithAlias(line, hostAlias) ==
  /\ line.kind = "Host"
  /\ Len(line.alias) >= Len(hostAlias)
  /\ SubSeq(line.alias, 1, Len(hostAlias)) = hostAlias

\* Where a match that begins on line i can end: [\s\S]*? runs up to the
\* first place followed by a line that begins with "Host " or by the
\* character Z (\Z is the letter Z in a JavaScript RegExp).
MatchEnds(text, i) ==
  {j \in (i + 1)..Len(text) : text[j].kind \in {"Host", "Z"}}

\* The lines blockRegex matches in text: first and one-past-last, or
\* << >> when test() is false (line 207).
blockRegex(text, hostAlias) ==
  LET starts == {i \in 1..Len(text) :
                   /\ StartsWithAlias(text[i], hostAlias)
                   /\ MatchEnds(text, i) # {}}
  IN IF starts = {}
       THEN << >>
       ELSE LET i == CHOOSE s \in starts : \A t \in starts : s <= t
                j == CHOOSE e \in MatchEnds(text, i) :
                       \A f \in MatchEnds(text, i) : e <= f
            IN << i, j >>

\* ensureSshConfigHostAlias, lines 196-213: the new text of the file.
ensureSshConfigHostAlias(text, hostAlias, p, user) ==
  LET m == blockRegex(text, hostAlias)
  IN IF m # << >>
       THEN SubSeq(text, 1, m[1] - 1) \o Block(hostAlias, p, user)
              \o SubSeq(text, m[2], Len(text))
       ELSE text \o Block(hostAlias, p, user)

NotWritten == [port |-> Undefined, user |-> ""]

\* How many Host lines name exactly this alias.
HostBlocks(text, alias) ==
  Cardinality({i \in 1..Len(text) : text[i] = HostLine(alias)})

PriorTexts ==
  UNION {[1..n -> Lines] : n \in 0..MaxPriorLines}

\* The file before the extension touches it: any lines, no alias with two
\* Host lines.
CfgInit ==
  /\ sshConfig \in {t \in PriorTexts : \A a \in Aliases : HostBlocks(t, a) <= 1}
  /\ written = [a \in Aliases |-> NotWritten]
  /\ writes = 0

CfgParked ==
  /\ sshConfig = << >>
  /\ written = [a \in Aliases |-> NotWritten]
  /\ writes = 0

\* openWorkspaceOverSsh, line 245: one call of ensureSshConfigHostAlias.
CfgWrite(hostAlias, p, user) ==
  /\ writes < MaxWrites
  /\ writes' = writes + 1
  /\ sshConfig' = ensureSshConfigHostAlias(sshConfig, hostAlias, p, user)
  /\ written' = [written EXCEPT ![hostAlias] = [port |-> p, user |-> user]]
  /\ UNCHANGED nonCfgVars

CfgNext ==
  \E a \in Aliases : \E p \in EphemeralPorts : \E u \in SshUsers :
    CfgWrite(a, p, u)

\* --------------------------------------------------------------- findFreePort

FpCallers == {"ensureContainerReadyAndGetPort", "buildAndRun"}

FpInit ==
  /\ busyPorts = {}
  /\ fpPc = "idle"
  /\ fpSocket = "none"
  /\ fpAddress = Undefined
  /\ fpError = FALSE
  /\ fpResult = Undefined
  /\ fpCaller = "none"
  /\ containerPort = Undefined

\* The loopback ports the kernel can give out.
FreePorts == (EphemeralPorts \ busyPorts) \ {containerPort}

\* lines 69-73: the promise is created, the server listens on port 0 of
\* 127.0.0.1.
FpCall(caller) ==
  /\ fpPc = "idle"
  /\ fpCaller' = caller
  /\ fpPc' = "listening"
  /\ fpSocket' = "none"
  /\ fpAddress' = Undefined
  /\ fpError' = FALSE
  /\ fpResult' = Undefined
  /\ UNCHANGED << busyPorts, containerPort, nonFpVars >>

\* Variant of FpListening: resolves in the listen callback, the listener
\* still open.
FpListeningResolveEarly ==
  /\ fpPc = "listening"
  /\ \E p \in FreePorts :
       /\ fpAddress' = p
       /\ fpResult' = p
  /\ fpSocket' = "open"
  /\ fpPc' = "resolved"
  /\ UNCHANGED << busyPorts, fpError, fpCaller, containerPort, nonFpVars >>

\* lines 74-77: the kernel binds the listener to a port nobody holds; the
\* listen callback reads server.address().port and asks for the close.
FpListening ==
  /\ fpPc = "listening"
  /\ fpAddress' \in FreePorts
  /\ fpSocket' = "open"
  /\ fpPc' = "closing"
  /\ UNCHANGED << busyPorts, fpError, fpResult, fpCaller, containerPort,
                  nonFpVars >>

\* lines 71-73: the bind fails (no port left, no loopback, no descriptor),
\* the server emits 'error' and the promise resolves to 2222.
FpBindError ==
  /\ fpPc = "listening"
  /\ fpError' = TRUE
  /\ fpResult' = FallbackPort
  /\ fpPc' = "resolved"
  /\ UNCHANGED << busyPorts, fpSocket, fpAddress, fpCaller, containerPort,
                  nonFpVars >>

\* line 77: the close callback resolves the promise with the port.
FpClosed ==
  /\ fpPc = "closing"
  /\ fpSocket' = "closed"
  /\ fpResult' = fpAddress
  /\ fpPc' = "resolved"
  /\ UNCHANGED << busyPorts, fpAddress, fpError, fpCaller, containerPort,
                  nonFpVars >>

\* The caller takes the port into rebuildContainer (line 464, extension.ts
\* line 217): a failed build leaves the container as it was; otherwise the
\* old container is removed and the new one publishes the port, unless
\* somebody holds it by now.
FpReturn ==
  /\ fpPc = "resolved"
  /\ fpPc' = "idle"
  /\ \/ UNCHANGED containerPort
     \/ containerPort' = IF fpResult \in busyPorts
                           THEN Undefined ELSE fpResult
  /\ UNCHANGED << busyPorts, fpSocket, fpAddress, fpError, fpResult,
                  fpCaller, nonFpVars >>

\* Another process binds a loopback port that is free: not one the
\* listener holds open.
EnvBind ==
  /\ \E p \in FreePorts :
       /\ ~(fpSocket = "open" /\ fpAddress = p)
       /\ busyPorts' = busyPorts \cup {p}
  /\ UNCHANGED << fpPc, fpSocket, fpAddress, fpError, fpResult, fpCaller,
                  containerPort, nonFpVars >>

\* Another process releases its port.
EnvRelease ==
  /\ \E p \in busyPorts : busyPorts' = busyPorts \ {p}
  /\ UNCHANGED << fpPc, fpSocket, fpAddress, fpError, fpResult, fpCaller,
                  containerPort, nonFpVars >>

FpNext ==
  \/ \E caller \in FpCallers : FpCall(caller)
  \/ FpListening
  \/ FpBindError
  \/ FpClosed
  \/ FpReturn
  \/ EnvBind
  \/ EnvRelease

\* ------------------------------------------------------ temporary Dockerfile

\* A line of a Dockerfile: its instruction ("#" for a comment) and the
\* words after it.
Line(instr, words) == [instr |-> instr, words |-> words]

Marker ==
  Line("#", << "Added by codiumDevcontainer (temp): postCreateCommand" >>)

\* `RUN ${c}` (line 340).
RunLine(c) == Line("RUN", << c >>)

\* A text: its lines, and whether it ends with "\n".
Text(lines, nl) == [lines |-> lines, nl |-> nl]

NoFile == Text(<< >>, FALSE)

Templates ==
  {Text(<< Line("FROM", << "base" >>), Line("RUN", << "apt" >>) >>, nl) :
     nl \in BOOLEAN}

PostCreateValues ==
  {Absent, Str(""), Str("cmd"), List(<< >>), List(<< "c1", "c2" >>),
   List(<< "c2", "c1" >>), List(<< "c1", "c1" >>)}

\* Variant of PostCreateCmds without the !post test.
PostCreateCmdsUnguarded(post) ==
  IF post.kind = "list" THEN post.list
  ELSE IF post.kind = "string" THEN << post.text >>
  ELSE << "undefined" >>

\* line 339: !post ? [] : (Array.isArray(post) ? post : [post]).
PostCreateCmds(post) ==
  IF post.kind = "absent" \/ (post.kind = "string" /\ post.text = "")
    THEN << >>
    ELSE IF post.kind = "list" THEN post.list ELSE << post.text >>

\* a + b for texts: the first line of b continues a's last line when a does
\* not end with a newline.
Concat(a, b) ==
  IF b.lines = << >> THEN a
  ELSE IF a.lines = << >> \/ a.nl THEN Text(a.lines \o b.lines, b.nl)
  ELSE LET last == a.lines[Len(a.lines)]
           first == b.lines[1]
       IN Text(SubSeq(a.lines, 1, Len(a.lines) - 1)
                 \o << Line(last.instr,
                            last.words \o << first.instr >> \o first.words) >>
                 \o Tail(b.lines),
               b.nl)

\* templateText + (templateText.endsWith("\n") ? "" : "\n") (line 341).
EndWithNewline(t) == Text(t.lines, TRUE)

\* lines 339-341: newContent.
newContent(template, post) ==
  LET cmds == PostCreateCmds(post)
      lines == IF Len(cmds) > 0
                 THEN << Marker >> \o [i \in 1..Len(cmds) |-> RunLine(cmds[i])]
                 ELSE << >>
  IN Concat(EndWithNewline(template), Text(lines, TRUE))

DfInit ==
  /\ templateText \in Templates
  /\ postCreateCommand \in PostCreateValues
  /\ dfPc = "idle"
  /\ dfPost = Absent
  /\ tempFile = NoFile
  /\ dfUsed = NoFile

DfParked ==
  /\ templateText = Text(<< >>, FALSE)
  /\ postCreateCommand = Absent
  /\ dfPc = "idle"
  /\ dfPost = Absent
  /\ tempFile = NoFile
  /\ dfUsed = NoFile

\* rebuildContainer calls buildImageWithEntrypoint with the configuration
\* read at the start of the command (lines 376-383, 359).
DfCall ==
  /\ dfPc = "idle"
  /\ dfPc' = "create"
  /\ dfPost' = postCreateCommand
  /\ dfUsed' = NoFile
  /\ UNCHANGED << templateText, postCreateCommand, tempFile, nonDfVars >>

\* createTemporaryDockerfile, lines 331-349: Dockerfile.codium-temp is
\* written anew from the template.
DfCreate ==
  /\ dfPc = "create"
  /\ tempFile' = newContent(templateText, dfPost)
  /\ dfPc' = "build"
  /\ UNCHANGED << templateText, postCreateCommand, dfPost, dfUsed,
                  nonDfVars >>

\* dockerBuildImage, lines 174-199: docker build -f <tempDockerfile>.
DfBuild ==
  /\ dfPc = "build"
  /\ dfUsed' = tempFile
  /\ dfPc' = "cleanup"
  /\ UNCHANGED << templateText, postCreateCommand, dfPost, tempFile,
                  nonDfVars >>

\* lines 363-367: the temporary Dockerfile is removed, build failed or not.
DfCleanup ==
  /\ dfPc = "cleanup"
  /\ tempFile' = NoFile
  /\ dfPc' = "idle"
  /\ UNCHANGED << templateText, postCreateCommand, dfPost, dfUsed,
                  nonDfVars >>

\* The extension host is killed during a build: the file stays behind.
EnvKilledInBuild ==
  /\ dfPc \in {"build", "cleanup"}
  /\ dfPc' = "idle"
  /\ UNCHANGED << templateText, postCreateCommand, dfPost, tempFile, dfUsed,
                  nonDfVars >>

\* Between two builds the user edits postCreateCommand.
EnvEditPostCreate ==
  /\ dfPc = "idle"
  /\ postCreateCommand' \in PostCreateValues \ {postCreateCommand}
  /\ UNCHANGED << templateText, dfPc, dfPost, tempFile, dfUsed, nonDfVars >>

DfNext ==
  \/ DfCall
  \/ DfCreate
  \/ DfBuild
  \/ DfCleanup
  \/ EnvKilledInBuild
  \/ EnvEditPostCreate

\* ------------------------------------------------------ container sessions

MaxSessions == 2

nonSupSesVars ==
  << recVars, bldVars, sshVars, slugVars, fltVars, conVars, psVars,
     usrVars, cfgVars, fpVars, dfVars, accVars >>

SesInit ==
  /\ session = 1
  /\ fileSession = 0

\* part_006 lines 431-441, deactivate(): the extension host of a remote
\* window runs inside the container and writes the stop file into the
\* workspace folder, which is the bind mount of line 10 of entrypoint.sh.
SesDeactivate ==
  /\ UNCHANGED nonSupSesVars
  /\ Supervising
  /\ ~stopFile
  /\ stopFile' = TRUE
  /\ fileSession' = session
  /\ UNCHANGED << supPc, CHECK_INTERVAL, IDLE_GRACE_SECONDS, idle_elapsed,
                  sshdAlive, estab, sigPending, exitCode, termCause,
                  lastProbe, polls, idleRun, everActive, stopSleeps,
                  idleBefore, session >>

\* part_002 lines 252-256 (docker start) and 201-232 (docker stop, rm, run
\* with the same -v mount): the entrypoint starts again from line 1. Neither
\* removes the stop file, and entrypoint.sh reads it first at line 33.
SesStart ==
  /\ UNCHANGED nonSupSesVars
  /\ supPc = "exited"
  /\ session < MaxSessions
  /\ session' = session + 1
  /\ supPc' = "start"
  /\ idle_elapsed' = 0
  /\ sshdAlive' = FALSE
  /\ estab' = FALSE
  /\ sigPending' = FALSE
  /\ exitCode' = -1
  /\ termCause' = "none"
  /\ lastProbe' = "none"
  /\ polls' = 0
  /\ idleRun' = 0
  /\ everActive' = FALSE
  /\ stopSleeps' = 0
  /\ idleBefore' = 0
  /\ UNCHANGED << CHECK_INTERVAL, IDLE_GRACE_SECONDS, stopFile, fileSession >>

SesNext ==
  \/ SupLaunch
  \/ SupInstallTrap
  \/ SupPoll
  \/ SupWake
  \/ SupTrap
  \/ SesDeactivate
  \/ EnvConnect
  \/ EnvDisconnect
  \/ EnvSshdDies
  \/ EnvSignalBeforeTrap
  \/ EnvSignal
  \/ SesStart

\* ------------------------------------- getEffectiveUser and setupSshAccess

MaxSetupCalls == 3

\* The lines of an authorized_keys file: the public key setupSshAccess
\* resolves on the host, or any other line.
Key == "key"
ImageKeyFiles == {<< >>, << "other" >>}

Copies(file) == Cardinality({i \in 1..Len(file) : file[i] = Key})

\* The docker exec queries of getEffectiveUser (lines 130-136), in order:
\* whoami (line 13), the passwd scan (lines 24-30) and ls /home (lines
\* 34-40).
getEffectiveUserQueries(remote) ==
  IF remote # ""
    THEN << >>
    ELSE IF getContainerUsername # "root"
      THEN << "whoami" >>
      ELSE IF passwdUser # ""
        THEN << "whoami", "passwd" >>
        ELSE << "whoami", "passwd", "home" >>

\* A container created from the image: nobody has been given the key.
AccInit ==
  /\ homeEntry \in {"", "dev"}
  /\ accPc = "idle"
  /\ accRemote = ""
  /\ queries = << >>
  /\ accUser = ""
  /\ \E f \in ImageKeyFiles : authorizedKeys = [u \in Users |-> f]
  /\ appended = [u \in Users |-> 0]
  /\ setupCalls = 0

AccParked ==
  /\ homeEntry = ""
  /\ accPc = "idle"
  /\ accRemote = ""
  /\ queries = << >>
  /\ accUser = ""
  /\ authorizedKeys = [u \in Users |-> << >>]
  /\ appended = [u \in Users |-> 0]
  /\ setupCalls = 0

\* openWorkspaceOverSsh (sshRuntime line 241) passes the configured
\* remoteUser, buildAndRun (extension.ts line 219) passes none.
AccCall(remote) ==
  /\ accPc = "idle"
  /\ setupCalls < MaxSetupCalls
  /\ setupCalls' = setupCalls + 1
  /\ accRemote' = remote
  /\ queries' = << >>
  /\ accUser' = ""
  /\ accPc' = "effective"
  /\ UNCHANGED << homeEntry, authorizedKeys, appended, nonAccVars >>

\* getEffectiveUser, sshRuntime lines 129-144.
AccEffective ==
  /\ accPc = "effective"
  /\ accUser' = getEffectiveUser(accRemote)
  /\ queries' = getEffectiveUserQueries(accRemote)
  /\ accPc' = "key"
  /\ UNCHANGED << homeEntry, accRemote, authorizedKeys, appended, setupCalls,
                  nonAccVars >>

\* setupSshAccess lines 147-150, resolvePublicKeyPath (lines 59-82): a key
\* file is found or picked, or the dialog is dismissed and the call goes on
\* to the login check.
AccResolveKey ==
  /\ accPc = "key"
  /\ accPc' \in {"prepare", "verify"}
  /\ UNCHANGED << homeEntry, accRemote, queries, accUser, authorizedKeys,
                  appended, setupCalls, nonAccVars >>

\* ensureAuthorizedKeyInContainer lines 85-92: mkdir, chmod, touch, chown
\* in the container; a non-zero exit (chown of an unknown user) rejects and
\* the exception ends setupSshAccess.
AccPrepare ==
  /\ accPc = "prepare"
  /\ accPc' \in {"append", "idle"}
  /\ UNCHANGED << homeEntry, accRemote, queries, accUser, authorizedKeys,
                  appended, setupCalls, nonAccVars >>

\* Variant of AccAppend: the key is added only to a file that lacks it.
AccAppendIfAbsent ==
  /\ accPc = "append"
  /\ authorizedKeys' =
       [authorizedKeys EXCEPT ![accUser] =
          IF Copies(@) = 0 THEN Append(@, Key) ELSE @]
  /\ appended' = [appended EXCEPT ![accUser] = @ + 1]
  /\ accPc' = "verify"
  /\ UNCHANGED << homeEntry, accRemote, queries, accUser, setupCalls,
                  nonAccVars >>

\* lines 93-98: cat >> authorized_keys with the key on standard input.
AccAppend ==
  /\ accPc = "append"
  /\ authorizedKeys' = [authorizedKeys EXCEPT ![accUser] = Append(@, Key)]
  /\ appended' = [appended EXCEPT ![accUser] = @ + 1]
  /\ accPc' = "verify"
  /\ UNCHANGED << homeEntry, accRemote, queries, accUser, setupCalls,
                  nonAccVars >>

\* lines 93-98: the docker exec of the append exits non-zero and rejects.
AccAppendFails ==
  /\ accPc = "append"
  /\ accPc' = "idle"
  /\ UNCHANGED << homeEntry, accRemote, queries, accUser, authorizedKeys,
                  appended, setupCalls, nonAccVars >>

\* verifySshLogin (line 151) and the return of setupSshAccess.
AccVerify ==
  /\ accPc = "verify"
  /\ accPc' = "idle"
  /\ UNCHANGED << homeEntry, accRemote, queries, accUser, authorizedKeys,
                  appended, setupCalls, nonAccVars >>

\* dockerRestartContainer (devcontainerCore lines 201-232): docker rm and
\* docker run give a new container with the files of the image.
EnvRebuild ==
  /\ accPc = "idle"
  /\ setupCalls > 0
  /\ \E u \in Users : appended[u] > 0
  /\ \E f \in ImageKeyFiles : authorizedKeys' = [u \in Users |-> f]
  /\ appended' = [u \in Users |-> 0]
  /\ UNCHANGED << homeEntry, accPc, accRemote, queries, accUser, setupCalls,
                  nonAccVars >>

AccNext ==
  \/ \E remote \in {remoteUser, ""} : AccCall(remote)
  \/ AccEffective
  \/ AccResolveKey
  \/ AccPrepare
  \/ AccAppend
  \/ AccAppendFails
  \/ AccVerify
  \/ EnvRebuild

\* ------------------------------------------------------------ specifications

\* The supervisor before its first step, with the default settings.
SupParked ==
  /\ SupInit
  /\ CHECK_INTERVAL = DefaultCheckInterval
  /\ IDLE_GRACE_SECONDS = DefaultIdleGrace
  /\ ~stopFile

\* The components other than the one a specification runs, at rest.
SupervisorInit ==
  SupInit /\ RecInit /\ BldInit /\ SshInit /\ SlugParked /\ FltInit /\
    ConInit /\ PsParked /\ UsrParked /\ CfgParked /\ FpInit /\ DfParked /\ SesInit /\ AccParked

ReconcilerInit ==
  SupParked /\ RecInit /\ BldInit /\ SshInit /\ SlugParked /\ FltInit /\
    ConInit /\ PsParked /\ UsrParked /\ CfgParked /\ FpInit /\ DfParked /\ SesInit /\ AccParked

BuildInit ==
  SupParked /\ RecInit /\ BldInit /\ SshInit /\ SlugParked /\ FltInit /\
    ConInit /\ PsParked /\ UsrParked /\ CfgParked /\ FpInit /\ DfParked /\ SesInit /\ AccParked

SshBootstrapInit ==
  SupParked /\ RecInit /\ BldInit /\ SshInit /\ SlugParked /\ FltInit /\
    ConInit /\ PsParked /\ UsrParked /\ CfgParked /\ FpInit /\ DfParked /\ SesInit /\ AccParked

SlugSpecInit ==
  SupParked /\ RecInit /\ BldInit /\ SshInit /\ SlugInit /\ FltInit /\
    ConInit /\ PsParked /\ UsrParked /\ CfgParked /\ FpInit /\ DfParked /\ SesInit /\ AccParked

FaultyEngineInit ==
  SupParked /\ RecInit /\ BldInit /\ SshInit /\ SlugParked /\ FltInit /\
    ConInit /\ PsParked /\ UsrParked /\ CfgParked /\ FpInit /\ DfParked /\ SesInit /\ AccParked

SupervisorSpec == SupervisorInit /\ [][SupNext]_vars

ReconcilerSpec == ReconcilerInit /\ [][RecNext]_vars

BuildSpec == BuildInit /\ [][BldNext]_vars

SshBootstrapSpec == SshBootstrapInit /\ [][SshNext]_vars

SlugSpec == SlugSpecInit /\ [][SlugNext]_vars

FaultyEngineSpec == FaultyEngineInit /\ [][FltNext]_vars

ConcurrentInit ==
  SupParked /\ RecInit /\ BldInit /\ SshInit /\ SlugParked /\ FltInit /\
    ConInit /\ PsParked /\ UsrParked /\ CfgParked /\ FpInit /\ DfParked /\ SesInit /\ AccParked

ConcurrentSpec == ConcurrentInit /\ [][ConNext]_vars

PostStartInit ==
  SupParked /\ RecInit /\ BldInit /\ SshInit /\ SlugParked /\ FltInit /\
    ConInit /\ PsInit /\ UsrParked /\ CfgParked /\ FpInit /\ DfParked /\ SesInit /\ AccParked

PostStartSpec == PostStartInit /\ [][PsNext]_vars

SshUserInit ==
  SupParked /\ RecInit /\ BldInit /\ SshInit /\ SlugParked /\ FltInit /\
    ConInit /\ PsParked /\ UsrInit /\ CfgParked /\ FpInit /\ DfParked /\ SesInit /\ AccParked

SshUserSpec == SshUserInit /\ [][UsrNext]_vars

SshConfigInit ==
  SupParked /\ RecInit /\ BldInit /\ SshInit /\ SlugParked /\ FltInit /\
    ConInit /\ PsParked /\ UsrParked /\ CfgInit /\ FpInit /\ DfParked /\ SesInit /\ AccParked

SshConfigSpec == SshConfigInit /\ [][CfgNext]_vars

FreePortInit ==
  SupParked /\ RecInit /\ BldInit /\ SshInit /\ SlugParked /\ FltInit /\
    ConInit /\ PsParked /\ UsrParked /\ CfgParked /\ FpInit /\ DfParked /\ SesInit /\ AccParked

FreePortSpec == FreePortInit /\ [][FpNext]_vars

DockerfileInit ==
  SupParked /\ RecInit /\ BldInit /\ SshInit /\ SlugParked /\ FltInit /\
    ConInit /\ PsParked /\ UsrParked /\ CfgParked /\ FpInit /\ DfInit /\ SesInit /\ AccParked

DockerfileSpec == DockerfileInit /\ [][DfNext]_vars

\* A workspace without a stop file, and the container started repeatedly.
SessionsInit ==
  SupInit /\ ~stopFile /\ RecInit /\ BldInit /\ SshInit /\ SlugParked /\
    FltInit /\ ConInit /\ PsParked /\ UsrParked /\ CfgParked /\ FpInit /\
    DfParked /\ SesInit /\ AccParked

SessionsSpec == SessionsInit /\ [][SesNext]_vars

SshAccessInit ==
  SupParked /\ RecInit /\ BldInit /\ SshInit /\ SlugParked /\ FltInit /\
    ConInit /\ PsParked /\ UsrInit /\ CfgParked /\ FpInit /\ DfParked /\
    SesInit /\ AccInit

SshAccessSpec == SshAccessInit /\ [][AccNext]_vars

\* ------------------------------------------------------------------ claims

\* C1: the supervisor never goes to terminating on a poll whose probe saw
\* an established connection, whatever idle time had accumulated: such a poll
\* leaves the accumulator at zero, and an exit through the stop file or the
\* idle threshold never follows a probe that saw a connection.
C1_NoTerminationOnEstablished ==
  lastProbe = "estab" =>
    /\ idle_elapsed = 0
    /\ termCause \notin {"stop", "idle"}

\* A poll saw a connection at the very point where one more idle poll would
\* have crossed the threshold, and the supervisor went back to sleep.
C1_Witness ==
  /\ supPc = "sleep"
  /\ lastProbe = "estab"
  /\ idleBefore + CHECK_INTERVAL >= IDLE_GRACE_SECONDS

\* C2: a stop file ends the supervisor within one poll interval: the poll
\* that finds the file always exits through cleanup (status 0), at most one
\* sleep ends between the file's creation and that poll, and the supervisor
\* never goes to sleep with a file it has already slept on.
C2_StopFileWithinOnePoll ==
  /\ Supervising => stopSleeps <= 1
  /\ (supPc = "sleep" /\ stopFile) => stopSleeps = 0
  /\ lastProbe = "skipped" =>
       (supPc = "exited" /\ termCause = "stop" /\ exitCode = 0 /\ ~stopFile)

\* The stop file ended the supervisor while a connection was established and
\* idle time had accumulated.
C2_Witness ==
  /\ supPc = "exited"
  /\ termCause = "stop"
  /\ estab
  /\ idle_elapsed > 0

\* C3: the accumulator is CHECK_INTERVAL times the number of polls since the
\* last poll that saw a connection (zero right after such a poll), so the
\* idle exit happens only after enough consecutive idle polls.
C3_IdleOnlyConsecutive ==
  /\ idle_elapsed = idleRun * CHECK_INTERVAL
  /\ lastProbe = "estab" => idle_elapsed = 0
  /\ termCause = "idle" =>
       (lastProbe = "idle" /\ idleRun * CHECK_INTERVAL >= IDLE_GRACE_SECONDS)

\* Enough polls for the threshold have run, one of them saw a connection,
\* and the supervisor is still supervising below the threshold.
C3_Witness ==
  /\ supPc = "sleep"
  /\ everActive
  /\ lastProbe = "idle"
  /\ polls * CHECK_INTERVAL >= IDLE_GRACE_SECONDS
  /\ idle_elapsed > 0
  /\ idle_elapsed < IDLE_GRACE_SECONDS

\* C4: with no connection ever seen (and no stop file, sshd alive), the idle
\* exit happens on the first poll k with k * CHECK_INTERVAL >=
\* IDLE_GRACE_SECONDS and on no other: the 5th for (2, 10), the 30th for the
\* defaults (2, 60).
C4_IdleExitPoll ==
  ~everActive =>
    /\ Supervising => polls * CHECK_INTERVAL < IDLE_GRACE_SECONDS
    /\ termCause = "idle" =>
         /\ polls * CHECK_INTERVAL >= IDLE_GRACE_SECONDS
         /\ (polls - 1) * CHECK_INTERVAL < IDLE_GRACE_SECONDS
         /\ (CHECK_INTERVAL = 2 /\ IDLE_GRACE_SECONDS = 10) => polls = 5
         /\ (CHECK_INTERVAL = DefaultCheckInterval
               /\ IDLE_GRACE_SECONDS = DefaultIdleGrace) => polls = 30

\* The default settings' idle exit, with no connection ever seen.
C4_Witness ==
  /\ termCause = "idle"
  /\ ~everActive
  /\ CHECK_INTERVAL = DefaultCheckInterval
  /\ IDLE_GRACE_SECONDS = DefaultIdleGrace
  /\ polls = 30

Returned == pc = "done" /\ outcome = "ok"

NoRebuildCommands ==
  ~InLog("build") /\ ~InLog("stop") /\ ~InLog("rm") /\ ~InLog("run")

NoDecisionPoint == ~InLog("prompt") /\ ~InLog("prompt2")

\* C5: when the config's mtime is strictly newer than the existing
\* container's creation time, a call with forceRebuild = false that returns
\* without having built has surfaced the "Rebuild" / "Reuse" decision.
C5_StaleNeverSilentlyReused ==
  (Returned /\ ~forceRebuild /\ pre.state # "absent" /\ pre.stale
     /\ ~InLog("build"))
  => (InLog("prompt") /\ choice \in {"Rebuild", "Reuse"})

\* A stale container was reused after the decision point was answered.
C5_Witness ==
  /\ Returned
  /\ ~forceRebuild
  /\ pre.stale
  /\ ~InLog("build")
  /\ choice = "Reuse"

\* C6, as stated: every successful call with forceRebuild = true has invoked
\* the build.
C6_ForcedAlwaysBuilds == (Returned /\ forceRebuild) => InLog("build")

\* C6, amended: a successful call with forceRebuild = true has invoked the
\* build unless the container was running, the "Kill & Rebuild" / "Reuse"
\* decision was answered "Reuse" and a mapped port was discovered; then the
\* running container is returned untouched.
C6_ForcedBuildsUnlessReuse ==
  (Returned /\ forceRebuild) =>
    \/ InLog("build")
    \/ /\ InLog("prompt2")
       /\ choice2 = "Reuse"
       /\ NoRebuildCommands
       /\ retPort # Undefined
       /\ retPort = getMappedSshPort

\* A forced call found the container running with its port published, and
\* built.
C6_Witness ==
  /\ Returned
  /\ forceRebuild
  /\ pre.state = "running"
  /\ pre.port # Undefined
  /\ InLog("build")

Healthy ==
  /\ ~forceRebuild
  /\ pre.state = "running"
  /\ pre.port # Undefined
  /\ ~pre.stale

\* C7: for a running container with a published port and a config not newer
\* than its creation, a call with forceRebuild = false issues no build, run,
\* stop or rm, surfaces no decision point and returns the published port and
\* the container name; a call that follows a successful call on an untouched
\* engine returns the same port.
C7_HealthyReuse ==
  (pc # "idle" /\ Healthy) =>
    /\ NoRebuildCommands
    /\ NoDecisionPoint
    /\ pc = "done" =>
         /\ outcome = "ok"
         /\ retPort = pre.port
         /\ retName = ContainerName
         /\ lastRet # Undefined => retPort = lastRet

\* The second of two consecutive calls on a healthy container has returned.
C7_Witness ==
  /\ Returned
  /\ Healthy
  /\ lastRet # Undefined
  /\ log = << "start" >>

\* C8: when no container of the session's name exists, the call surfaces no
\* decision point, and a call that returns has allocated a port, built, then
\* (after the stop and rm of dockerRestartContainer) run a new container
\* published on that port, and returns that port and the container name.
C8_AbsentRebuilds ==
  (pc # "idle" /\ pre.state = "absent") =>
    /\ NoDecisionPoint
    /\ Returned =>
         /\ log = << "alloc", "build", "stop", "rm", "run" >>
         /\ retPort = port
         /\ retPort \in findFreePort
         /\ retName = ContainerName
         /\ cState = "running"
         /\ cPort = retPort
         /\ cCreated = now

\* A call that found no container has returned.
C8_Witness ==
  /\ Returned
  /\ pre.state = "absent"
  /\ ~forceRebuild
  /\ InLog("run")

\* C9, as stated: a call with forceRebuild = false that finds the container
\* stopped and the config not newer starts it and returns its mapped port
\* without build, stop, rm or run.
C9_StoppedAlwaysStartedAndReused ==
  (Returned /\ ~forceRebuild /\ pre.state = "stopped" /\ ~pre.stale) =>
    /\ InLog("start")
    /\ NoRebuildCommands
    /\ retPort = pre.port

\* C9, amended: such a call issues docker start (docker restart when that
\* fails); when that leaves the container running and its port is published,
\* the call returns that port without build, stop, rm or run and without a
\* decision point.
C9_StoppedStartedAndReused ==
  (pc = "done" /\ ~forceRebuild /\ pre.state = "stopped" /\ ~pre.stale
     /\ upAfterStart /\ pre.port # Undefined) =>
    /\ outcome = "ok"
    /\ InLog("start")
    /\ NoRebuildCommands
    /\ NoDecisionPoint
    /\ retPort = pre.port
    /\ cState = "running"

\* A stopped container was started and its port returned.
C9_Witness ==
  /\ Returned
  /\ ~forceRebuild
  /\ pre.state = "stopped"
  /\ ~pre.stale
  /\ upAfterStart
  /\ retPort = pre.port
  /\ NoRebuildCommands

\* C10: when the call returns, the container of the returned name exists and
\* runs, and the engine's host port for its SSH port is the returned port.
C10_ReturnedPairIsLive ==
  Returned =>
    /\ retName = ContainerName
    /\ containerExists
    /\ isContainerRunning
    /\ retPort # Undefined
    /\ cPort = retPort

\* A call that replaced a running container has returned.
C10_Witness ==
  /\ Returned
  /\ pre.state = "running"
  /\ InLog("run")

Dismissed == choice = "dismissed" \/ choice2 = "dismissed"

\* C11: a dismissed decision point ends the call at once with the
\* cancellation error and no returned port; the call has issued no build,
\* stop, rm or run (and allocated no port), and the engine is as the call
\* found it except that a stopped container may have been started.
C11_DismissAbortsCleanly ==
  /\ Dismissed <=> outcome = "cancelled"
  /\ Dismissed =>
       /\ pc \in {"done", "idle"}
       /\ retPort = Undefined
       /\ retName = "none"
       /\ NoRebuildCommands
       /\ ~InLog("alloc")
       /\ log[Len(log)] \in {"prompt", "prompt2"}
  /\ (Dismissed /\ pc = "done") =>
       /\ cPort = pre.port
       /\ \/ cState = pre.state
          \/ pre.state = "stopped" /\ cState = "running"

\* The second decision point was dismissed after the call had started a
\* stopped container.
C11_Witness ==
  /\ pc = "done"
  /\ choice2 = "dismissed"
  /\ outcome = "cancelled"
  /\ pre.state = "stopped"
  /\ cState = "running"

\* C12, as stated: the port returned after a (re)creation is never the one
\* a query discovered before the stop/rm of that call.
C12_NeverCarriedOver == (Returned /\ InLog("run")) => InLog("alloc")

\* C12, amended: the port returned after a (re)creation is the port the new
\* container was published on, so a query of the new container answers it;
\* it is the port discovered before the stop/rm when one was discovered, and
\* a newly allocated one otherwise.
C12_ReturnedPortIsNewMapping ==
  (Returned /\ InLog("run")) =>
    /\ cCreated = now
    /\ getMappedSshPort = retPort
    /\ IF InLog("alloc")
         THEN retPort \in findFreePort
         ELSE pre.port # Undefined /\ retPort = pre.port

\* A container with a published port was replaced, and the call returned the
\* port it had discovered before the stop/rm.
C12_Witness ==
  /\ Returned
  /\ InLog("run")
  /\ ~InLog("alloc")
  /\ retPort = pre.port
  /\ log[Len(log) - 2] = "stop"

\* C13, as stated: a supervisor whose sshd child has died never exits with
\* status 0.
C13_DeadSshdNeverExitsZero ==
  [][ (Supervising /\ ~sshdAlive /\ supPc' = "exited") => exitCode' # 0 ]_vars

\* C13, amended: once sshd has died the supervisor begins no poll cycle
\* after the one under way: the sleep of that cycle ends the supervisor,
\* with status 1 unless a trapped signal makes it 0; before that sleep, the
\* cycle's own stop-file or idle exit (or a trapped signal) ends it with
\* status 0. Status 1 is given only by the liveness check after a sleep.
C13_DeadSshdEndsWithinCycle ==
  [][ /\ (Supervising /\ ~sshdAlive) =>
           /\ supPc = "sleep" => supPc' \in {"sleep", "exited"}
           /\ (supPc = "sleep" /\ supPc' = "exited") =>
                \/ exitCode' = 1 /\ termCause' = "sshd" /\ ~sigPending
                \/ exitCode' = 0 /\ termCause' = "signal" /\ sigPending
           /\ (supPc = "poll" /\ supPc' = "exited") =>
                /\ exitCode' = 0
                /\ termCause' \in {"stop", "idle", "signal"}
           /\ polls' <= polls + 1
      /\ (Supervising /\ exitCode' = 1) =>
           (~sshdAlive /\ supPc = "sleep" /\ termCause' = "sshd")
    ]_vars

\* sshd died during a sleep in which the stop file was written too, and the
\* liveness check ended the supervisor with status 1.
C13_Witness ==
  /\ supPc = "exited"
  /\ exitCode = 1
  /\ termCause = "sshd"
  /\ ~sshdAlive
  /\ stopFile
  /\ polls >= 2

\* C14, as stated: a TERM or INT received at any time after sshd was
\* launched ends the supervisor with status 0 and sshd no longer running.
C14_AnySignalAfterLaunchCleansUp ==
  termCause \in {"signal", "killed"} => (exitCode = 0 /\ ~sshdAlive)

\* C14, amended: the supervisor exits with status 0 only through cleanup,
\* on the stop file, the idle threshold or a TERM / INT received after the
\* trap was installed, and then sshd is no longer running; a signal pending
\* while supervising is answered by cleanup at the supervisor's next step.
C14_SuccessfulExitStopsSshd ==
  /\ [](exitCode = 0 =>
          /\ supPc = "exited"
          /\ ~sshdAlive
          /\ termCause \in {"stop", "idle", "signal"})
  /\ [](termCause \in {"stop", "idle", "signal"} =>
          (supPc = "exited" /\ exitCode = 0 /\ ~sshdAlive))
  /\ [][ (Supervising /\ sigPending /\ supPc' # supPc) =>
           /\ supPc' = "exited"
           /\ exitCode' = 0
           /\ termCause' = "signal"
           /\ ~sshdAlive'
       ]_vars

\* A trapped signal ended the supervisor while a connection was established.
C14_Witness ==
  /\ supPc = "exited"
  /\ termCause = "signal"
  /\ exitCode = 0
  /\ ~sshdAlive
  /\ estab

BuildCompleted == bPc = "done"

\* C15, as stated: when buildImageWithEntrypoint completes, by return or by
\* any exception raised after staging began, the entrypoint.sh this call
\* staged and the Dockerfile.codium-temp this call wrote are gone.
C15_StagedFilesGoneOnCompletion ==
  BuildCompleted =>
    /\ bStaged => epFile = "absent"
    /\ tempDockerfile => ~tmpExists

\* C16, as stated: an entrypoint.sh without the marker that was there before
\* the build is there, with its content, after it.
C16_UserEntrypointPreserved ==
  (BuildCompleted /\ bPre.ep = "user") => epFile = "user"

LoginCheckFailed == sshResult \in {"badconfig", "denied", "spawnerr"}

\* C17: when the ssh check fails, with "Bad configuration option" on stderr
\* or without, setupSshAccess returns false to its caller and no exception
\* of setupSshAccess ends the call; the warning shown tells the two
\* classifications apart.
C17_FailedLoginReturnsFalse ==
  LoginCheckFailed =>
    /\ ok = "false"
    /\ thrownBy # "ensureAuthorizedKeyInContainer"
    /\ warning = IF sshResult = "badconfig" THEN "config" ELSE "login"

\* The key was installed, the check failed on a malformed configuration and
\* the caller went on with ok = false.
C17_Witness ==
  /\ sshResult = "badconfig"
  /\ pubKeyPath = "found"
  /\ ok = "false"
  /\ sPc = "alias"

\* C18, as stated: whenever setupSshAccess returned false, openWorkspaceOverSsh
\* ends with the manual terminal opened, without an error and without the
\* remote folder opened.
C18_FalseAlwaysOffersManualFallback ==
  (sPc = "done" /\ ok = "false") =>
    /\ manualTerminal
    /\ sOutcome = "returned"
    /\ ~folderOpened

\* C19: for every workspace path, makeWorkspaceSlug returns a non-empty
\* string of lowercase letters, digits and '.', '_', '-' that neither starts
\* nor ends with '.', '_' or '-'; it is the token "workspace" exactly when
\* the folder name holds no letter and no digit.
C19_SlugWellFormed ==
  slugPc = "done" =>
    /\ Len(slugRet) > 0
    /\ \A i \in 1 .. Len(slugRet) : slugRet[i] \in SlugChars
    /\ slugRet[1] \notin Separators
    /\ slugRet[Len(slugRet)] \notin Separators
    /\ (slugRet = Workspace) <=>
         (\A i \in 1 .. Len(basename(wsFsPath)) :
            basename(wsFsPath)[i] \in Separators \cup {"#"})

\* "_B#." gave "b": lowercased, the run outside the class replaced, the
\* separators at both ends removed.
C19_Witness ==
  /\ slugPc = "done"
  /\ wsFsPath = << "_", "B", "#", "." >>
  /\ slugRet = << "b" >>

\* C20, as stated: a call in which a query met a fatal engine error ends
\* with an error, and has not gone on as if the container, its port or its
\* creation time were absent: it has allocated no port and issued no build,
\* stop, rm or run.
C20_FatalQueryErrorAborts ==
  (pc = "done" /\ faultHit # "none") =>
    /\ outcome = "error"
    /\ ~InLog("alloc")
    /\ NoRebuildCommands

\* C21: two invocations of ensureContainerReadyAndGetPort for the same
\* container never interleave their engine commands: no invocation issues
\* an engine command while another one that has issued one is still in
\* flight. Stated here for the state-changing commands (start, build, stop,
\* rm, run) alone.
C21_InvocationsNeverInterleave ==
  \A i, j \in Invocations :
    i # j => ~(InFlight(i) /\ inv[i].acted /\ InFlight(j) /\ inv[j].acted)

\* C22: within one remote session postStartCommand is executed at most once,
\* however the call made by activate and the calls made on create/change
\* events of devcontainer.json interleave.
C22_PostStartAtMostOnce == psRuns <= 1

\* C23: with remoteUser set in devcontainer.json, every command that sets
\* up SSH access installs the key for remoteUser and logs in as remoteUser,
\* never as a detected container user.
C23_RemoteUserAlwaysHonoured ==
  (uPc = "done" /\ remoteUser # "") =>
    /\ loginUser = remoteUser
    /\ keyUser \in {"", remoteUser}

\* C24: after any sequence of ensureSshConfigHostAlias calls on any prior
\* file, every alias that was written has exactly one Host block in the
\* file, and that block carries the port and the user of the latest call
\* for the alias.
C24_OneCurrentBlockPerAlias ==
  \A a \in Aliases :
    written[a] # NotWritten =>
      /\ HostBlocks(sshConfig, a) = 1
      /\ \E i \in 1..(Len(sshConfig) - 1) :
           /\ sshConfig[i] = HostLine(a)
           /\ sshConfig[i + 1] = OptionsLine(written[a].port, written[a].user)

\* C25: findFreePort always resolves to a port number: the port the kernel
\* gave a loopback listener bound to port 0, the listener closed before the
\* value is handed out, or 2222 when the bind failed.
C25_ResolvesToFreedPortOrFallback ==
  fpPc = "resolved" =>
    \/ /\ fpError
       /\ fpResult = FallbackPort
    \/ /\ ~fpError
       /\ fpResult \in EphemeralPorts
       /\ fpResult = fpAddress
       /\ fpSocket = "closed"

\* A call that bound a listener has resolved.
C25_Witness ==
  /\ fpPc = "resolved"
  /\ ~fpError
  /\ fpSocket = "closed"
  /\ fpResult \in EphemeralPorts

\* The post-create steps of a postCreateCommand value: none when absent or
\* empty, the string itself, or the items of the list in order.
StepsOf(post) ==
  CASE post.kind = "list" -> post.list
    [] post.kind = "string" /\ post.text # "" -> << post.text >>
    [] OTHER -> << >>

IsRun(line) == line.instr = "RUN"

\* C26: whatever postCreateCommand is and however many builds came before,
\* the file a build reads is the template followed by one RUN step per
\* post-create step, in order and once each (and by nothing else but the
\* marker comment); no step when postCreateCommand is absent or empty.
C26_TemplateThenOneRunPerStep ==
  dfPc = "cleanup" =>
    LET n == Len(templateText.lines)
        added == SubSeq(dfUsed.lines, n + 1, Len(dfUsed.lines))
        runs == SelectSeq(added, IsRun)
        steps == StepsOf(dfPost)
    IN /\ Len(dfUsed.lines) >= n
       /\ SubSeq(dfUsed.lines, 1, n) = templateText.lines
       /\ Len(runs) = Len(steps)
       /\ \A i \in 1..Len(steps) : runs[i] = RunLine(steps[i])
       /\ \A i \in 1..Len(added) : IsRun(added[i]) \/ added[i] = Marker
       /\ steps = << >> => added = << >>

\* A build with a two-step list has read its file: the template, the
\* marker and two RUN steps.
C26_Witness ==
  /\ dfPc = "cleanup"
  /\ dfPost = List(<< "c1", "c2" >>)
  /\ Len(dfUsed.lines) = Len(templateText.lines) + 3

\* Command a is in the log, and b is not issued before it.
Before(a, b) ==
  \E i \in 1 .. Len(log) :
    log[i] = a /\ \A j \in 1 .. i : log[j] # b

\* C27: a call never issues stop or rm against a container it saw running
\* unless it has surfaced the "Kill & Rebuild" / "Reuse" decision before,
\* whether the rebuild was forced, chosen at the first decision point or due
\* to an undiscoverable port.
C27_NoKillOfRunningWithoutPrompt2 ==
  /\ (pc = "stop" /\ cState = "running") => InLog("prompt2")
  /\ (upAfterStart /\ (InLog("stop") \/ InLog("rm"))) =>
       /\ Before("prompt2", "stop")
       /\ Before("prompt2", "rm")
       /\ choice2 \in {"Kill & Rebuild", "Reuse"}

\* A forced call has stopped and removed a container it found running, after
\* "Kill & Rebuild".
C27_Witness ==
  /\ forceRebuild
  /\ pre.state = "running"
  /\ upAfterStart
  /\ InLog("stop")
  /\ InLog("rm")
  /\ choice2 = "Kill & Rebuild"

\* C28: "Reuse" at the second decision point cancels the rebuild when a
\* mapped port is discovered: no build, stop, rm or run, and the discovered
\* port is returned, with forceRebuild = true too. With no port to discover
\* the rebuild goes ahead.
C28_ReuseCancelsRebuildIfPortFound ==
  (pc = "done" /\ choice2 = "Reuse") =>
    IF pre.port # Undefined
      THEN /\ Returned
           /\ NoRebuildCommands
           /\ ~InLog("alloc")
           /\ retPort = pre.port
           /\ getMappedSshPort = retPort
      ELSE InLog("alloc") /\ InLog("build")

\* A forced call answered "Reuse" has returned the running container's port.
C28_Witness ==
  /\ Returned
  /\ forceRebuild
  /\ choice2 = "Reuse"
  /\ retPort = pre.port
  /\ pre.port # Undefined

\* C29: in a rebuild the image is built before the old container is stopped
\* or removed, and the replacement goes stop, rm, run; a failed build is
\* followed by no stop, rm or run, and the build step leaves the container
\* as it was.
C29_BuildFirstThenStopRmRun ==
  /\ [](/\ InLog("stop") => Before("build", "stop")
        /\ InLog("rm") => Before("stop", "rm")
        /\ InLog("run") => Before("rm", "run")
        /\ (pc = "done" /\ outcome = "error" /\ ~InLog("run")) =>
             (InLog("build") /\ ~InLog("stop") /\ ~InLog("rm")))
  /\ [][pc = "build" => UNCHANGED engineVars]_vars

\* A build has failed with the container up.
C29_Witness ==
  /\ pc = "done"
  /\ outcome = "error"
  /\ log[Len(log)] = "build"
  /\ cState = "running"

\* C30: a rebuild of a container with a discovered port p runs the new
\* container on p without asking the allocator; the allocator is asked
\* exactly in the rebuilds that have no discovered port, the absent
\* container included.
C30_AllocatorOnlyWithoutDiscoveredPort ==
  /\ InLog("alloc") =>
       /\ pre.state = "absent" \/ pre.port = Undefined \/ ~upAfterStart
       /\ pc \in {"build", "stop", "rm", "run", "done", "idle"}
       /\ pc # "build" => InLog("build")
  /\ (InLog("build") /\ ~InLog("alloc")) =>
       /\ pre.state # "absent"
       /\ pre.port # Undefined
       /\ port = pre.port
  /\ (Returned /\ InLog("run")) =>
       /\ getMappedSshPort = port
       /\ retPort = port

\* A rebuild has replaced a container on the port it had.
C30_Witness ==
  /\ Returned
  /\ InLog("run")
  /\ ~InLog("alloc")
  /\ pre.port # Undefined
  /\ cPort = pre.port

\* How many times command c was issued in the call.
Issued(c) == Cardinality({i \in 1 .. Len(log) : log[i] = c})

\* C31: a docker build or docker run that exits non-zero makes the call
\* fail with an error and return neither port nor container name; the
\* failed command was issued once (no retry). A start that fails, its
\* restart fallback included, never ends the call: only build and run, and
\* a dismissed prompt, do.
C31_BuildRunFailuresThrowOnce ==
  /\ Issued("build") <= 1
  /\ Issued("run") <= 1
  /\ (pc = "done" /\ outcome = "error") =>
       /\ retPort = Undefined
       /\ retName = "none"
       /\ log[Len(log)] \in {"build", "run"}
  /\ (pc = "done" /\ outcome = "cancelled") =>
       log[Len(log)] \in {"prompt", "prompt2"}
  /\ (pc = "done" /\ InLog("restart") /\ ~upAfterStart) =>
       (InLog("build") /\ outcome \in {"ok", "error"})

\* The start and its restart fallback failed, the call went on to rebuild,
\* and docker run failed.
C31_Witness ==
  /\ pc = "done"
  /\ outcome = "error"
  /\ InLog("restart")
  /\ ~upAfterStart
  /\ log[Len(log)] = "run"

C33_NoStaleStopFileAtFirstPoll ==
  /\ (supPc = "poll" /\ polls = 0 /\ stopFile) => fileSession = session
  /\ (supPc = "exited" /\ termCause = "stop") => fileSession = session

\* C34: whenever the supervisor sleeps between two polls, idle_elapsed is a
\* non-negative multiple of CHECK_INTERVAL and is strictly below
\* IDLE_GRACE_SECONDS (both settings being positive).
C34_IdleElapsedWhileSleeping ==
  (supPc = "sleep" /\ CHECK_INTERVAL > 0 /\ IDLE_GRACE_SECONDS > 0) =>
    /\ idle_elapsed >= 0
    /\ idle_elapsed % CHECK_INTERVAL = 0
    /\ idle_elapsed < IDLE_GRACE_SECONDS

\* The last sleep before the threshold, with an interval that does not
\* divide the grace period.
C34_Witness ==
  /\ supPc = "sleep"
  /\ idle_elapsed > 0
  /\ idle_elapsed + CHECK_INTERVAL >= IDLE_GRACE_SECONDS
  /\ IDLE_GRACE_SECONDS % CHECK_INTERVAL # 0

\* C35, as stated: an entrypoint.sh carrying the marker that was in
\* .devcontainer before buildImageWithEntrypoint was called is there,
\* unchanged, when the build completes: only files of this call are removed.
C35_MarkedEntrypointPreserved ==
  (BuildCompleted /\ HasMarker(bPre.ep)) => (~bStaged /\ epFile = bPre.ep)

\* The alias whose block holds line i of an SSH configuration: that of the
\* nearest Host line at or above it, << >> above the first Host line.
Owner(text, i) ==
  LET hs == {k \in 1..i : text[k].kind = "Host"}
  IN IF hs = {}
       THEN << >>
       ELSE text[CHOOSE k \in hs : \A l \in hs : l <= k].alias

\* The lines of text outside the blocks of alias, each with its owner.
OutsideBlocksOf(text, alias) ==
  SelectSeq([i \in 1..Len(text) |-> [line |-> text[i], owner |-> Owner(text, i)]],
            LAMBDA x : x.owner # alias)

\* C36, as stated: a call of ensureSshConfigHostAlias for one alias leaves
\* the Host blocks of every other alias, and all other text of the file,
\* as they were.
C36_OtherBlocksUntouched ==
  [][writes' = writes + 1 =>
       \E a \in Aliases :
         /\ written'[a] # NotWritten
         /\ \A b \in Aliases \ {a} : written'[b] = written[b]
         /\ OutsideBlocksOf(sshConfig', a) = OutsideBlocksOf(sshConfig, a)]_vars

C38_OneCopyPerCall ==
  /\ [](\A u \in Users : Copies(authorizedKeys[u]) = appended[u])
  /\ [][\A u \in Users :
          appended'[u] = appended[u] + 1 =>
            /\ Copies(authorizedKeys[u]) = appended[u]
            /\ authorizedKeys'[u] = Append(authorizedKeys[u], Key)]_vars

\* The same user was given the key by two calls on one container.
C38_Witness ==
  \E u \in Users :
    /\ appended[u] >= 2
    /\ Copies(authorizedKeys[u]) >= 2
    /\ accPc = "verify"

====
